---- MODULE Spec2Model ----
(***************************************************************************)
(* Model of the sugartalking AVR control layer:                            *)
(*   - the discovery engine (app/services/discovery.py) working on the     *)
(*     discovered_receivers table (app/models.py), and                     *)
(*   - the templated command executor (app/services/command_executor.py).  *)
(*                                                                         *)
(* Spec      : the discovery engine, several threads on several            *)
(*             DiscoveryService instances sharing one database.            *)
(* SpecExec  : the command executor against a catalog and a network.       *)
(***************************************************************************)
EXTENDS Integers, Sequences, FiniteSets, TLC

\* ------------------------------------------------------------------ bounds
MaxTime == 4        \* the clock runs from 0 to MaxTime
MaxRecords == 2     \* rows the discovered_receivers table may hold
MaxAgeHours == 2    \* max_age_hours is drawn from 1..MaxAgeHours
MaxRequests == 2    \* HTTP requests the executor's run may issue in all
MaxRuns == 2        \* calls of start_mdns_discovery on one service

\* --------------------------------------------------------------- constants
None == "None"

\* Addresses that may be sighted on the network.
Addrs == {"10.0.0.1", "10.0.0.2"}

\* DiscoveryService instances.  The API builds a new one for every request
\* (api.py:159, api.py:192); each has its own session and its own lock.
Services == {"s1", "s2"}

\* Threads calling into the services: t1 and t2 both call into s1 (zeroconf
\* browser threads calling AVRServiceListener.add_service on one service),
\* t3 is the thread of another request, with its own service s2.
Threads == {"t1", "t2", "t3"}
ServiceOf(t) == IF t = "t3" THEN "s2" ELSE "s1"

\* The browser threads only ever call add_discovered_device; a request or
\* scheduler thread also sweeps and lists.
Callers == {"t3"}

\* The two discovery strategies and what each passes to
\* add_discovered_device: add_service passes hostname=info.server and
\* 'mdns'; scan_network_range passes no hostname and 'http_probe'.
Sightings ==
    { [discovery_method |-> "mdns",       port |-> 80, hostname |-> "avr.local"],
      [discovery_method |-> "http_probe", port |-> 80, hostname |-> None] }

\* Outcomes of _identify_receiver: the id of a catalog Receiver, or None.
\* The device at 10.0.0.1 is a Denon AVR of the catalog, identified when its
\* page answers and matches; the device at 10.0.0.2 is never identified.
IdentifyOutcomes(ip) == IF ip = "10.0.0.1" THEN {None, "r1"} ELSE {None}

VARIABLES
    registry,   \* the discovered_receivers table: a sequence of rows, id = index
    now,        \* the wall clock read by datetime.utcnow()
    lock,       \* lock[s]: the thread holding DiscoveryService s's _lock, or None
    pc,         \* pc[t]: where thread t stands in the operation it runs
    loc,        \* loc[t]: the locals (and pending session changes) of thread t
    last,       \* summary of the operation that returned last
    catalog,    \* executor: the receivers and commands tables
    httpCount,  \* executor: HTTP requests issued so far
    call,       \* executor: the last call and what it returned
    world,      \* scan: how the devices of the network answer
    scan,       \* scan: the last scan_network_range call and what it did
    device,     \* the receiver mute_toggle talks to: its mute state
    mdns        \* start_mdns_discovery: where the call stands, self.zeroconf

discVars == <<registry, now, lock, pc, loc, last>>
execVars == <<catalog, httpCount, call>>
scanVars == <<world, scan>>
vars ==
    <<registry, now, lock, pc, loc, last, catalog, httpCount, call, world, scan,
      device, mdns>>

\* ============================================================= discovery

NoLoc ==
    [op |-> "none", ip |-> None, sighting |-> None, existing |-> 0,
     loaded_active |-> FALSE, rid |-> None, ts |-> 0, stale |-> {},
     cutoff |-> 0]

\* For a sighting, hostname is the hostname it carried; for a listing,
\* active_only is the argument it was called with.
NoLast ==
    [op |-> "none", ok |-> FALSE, ids |-> {}, result |-> << >>,
     hostname |-> None, active_only |-> FALSE]

\* session.query(DiscoveredReceiver).filter_by(ip_address=ip).first():
\* the id of the first row with that address (SQLite scans in rowid order),
\* 0 when there is none.
FindByAddress(reg, ip) ==
    LET hits == {i \in DOMAIN reg : reg[i].ip_address = ip}
    IN  IF hits = {} THEN 0 ELSE CHOOSE i \in hits : \A j \in hits : i <= j

\* The DiscoveredReceiver built for a first sighting (is_active is not
\* passed: the column default True applies).
NewRecord(ip, s, rid, t) ==
    [ip_address       |-> ip,
     port             |-> s.port,
     hostname         |-> s.hostname,
     mac_address      |-> None,
     friendly_name    |-> IF s.hostname # None THEN s.hostname ELSE "AVR at " \o ip,
     receiver_id      |-> rid,
     is_active        |-> TRUE,
     last_seen        |-> t,
     discovery_method |-> s.discovery_method]

\* Number of inserts that threads have prepared and not yet committed.
PendingInserts ==
    Cardinality({t \in Threads : pc[t] = "pending" /\ loc[t].existing = 0})

\* The instants datetime.utcnow() may return: the clock never runs
\* backwards and two reads never return the same instant; any amount of
\* time may have passed since the last read.
ClockReads == now .. (MaxTime - 1)

\* ------------------------------------------------------- executor: data

\* The receivers table after seeding (seed_database.py:41-48).
SeedReceivers ==
    << [id |-> "r1", manufacturer |-> "Denon", model |-> "AVR-X2300W",
        protocol |-> "http", default_port |-> "80"] >>

\* Text the code works on character by character (templates, parameter
\* names and values) is a sequence of one-character strings.
PowerOnTemplate ==
    <<"?", "c", "m", "d", "0", "=", "P", "u", "t", "Z", "o", "n", "e", "_",
      "O", "n", "O", "f", "f", "/", "O", "N">>
VolumeSetTemplate == <<"?", "M", "V", "{", "l", "e", "v", "e", "l", "}">>

Cmd(action_type, action_name, endpoint, http_method, command_template) ==
    [receiver_id |-> "r1", action_type |-> action_type, action_name |-> action_name,
     endpoint |-> endpoint, http_method |-> http_method,
     command_template |-> command_template]

\* Some of the commands the seed adds (seed_database.py:52-106).
SeedCommands ==
    << Cmd("power", "power_on", "/MainZone/index.put.asp", "GET", PowerOnTemplate),
       Cmd("volume", "volume_set", "/goform/formiPhoneAppDirect.xml", "GET", VolumeSetTemplate) >>

\* Commands a catalog edit may add: http_method is a free String(10)
\* column (models.py:56), nullable, so a row may carry any method text.
OtherCommands ==
    << Cmd("power", "power_post", "/goform/formiPhoneAppDirect.xml", "POST", <<"?", "P", "W", "O", "N">>),
       Cmd("power", "power_put", "/goform/formiPhoneAppDirect.xml", "PUT", <<"?", "P", "W", "O", "N">>),
       Cmd("power", "power_delete", "/goform/formiPhoneAppDirect.xml", "DELETE", <<"?", "P", "W", "O", "N">>),
       Cmd("power", "power_lower", "/goform/formiPhoneAppDirect.xml", "get", <<"?", "P", "W", "O", "N">>),
       Cmd("power", "power_patch", "/goform/formiPhoneAppDirect.xml", "PATCH", <<"?", "P", "W", "O", "N">>),
       Cmd("power", "power_null", "/goform/formiPhoneAppDirect.xml", None, <<"?", "P", "W", "O", "N">>) >>

EmptyCatalog == [receivers |-> << >>, commands |-> << >>]
SeedCatalog == [receivers |-> SeedReceivers, commands |-> SeedCommands]
EditedCatalog == [receivers |-> SeedReceivers, commands |-> SeedCommands \o OtherCommands]
Catalogs == {EmptyCatalog, SeedCatalog, EditedCatalog}

\* What callers pass to the executor.
ModelNames == {"AVR-X2300W", "AVR-X9999"}
ActionNames ==
    {EditedCatalog.commands[i].action_name : i \in DOMAIN EditedCatalog.commands}
        \cup {"no_such_action"}
Hosts == {"192.168.1.50"}
PortArgs == {None, "8080"}

\* A parameter value: api.py passes strings (a two-digit level at line 299,
\* the input source of the request path at line 382); an int is what a
\* direct caller may pass for a level.
StrValue(s) == [type |-> "str", s |-> s, n |-> 0]
IntValue(n) == [type |-> "int", s |-> << >>, n |-> n]

\* The parameters argument: a dict, as the sequence of its items in
\* iteration order, or an object that is no mapping (mapping = FALSE).
Mapping(items) == [mapping |-> TRUE, items |-> items]
NotAMapping == [mapping |-> FALSE, items |-> <<[key |-> << >>, value |-> StrValue(<<"4", "0">>)]>>]
Item(key, value) == [key |-> key, value |-> value]

\* The parameters execute_command is called with: none, the level of
\* api.py:299, and a list in place of the dict.
ParamArgs ==
    {Mapping(<< >>),
     Mapping(<<Item(<<"l", "e", "v", "e", "l">>, StrValue(<<"4", "0">>))>>),
     NotAMapping}

\* What the network does with a request: a response with a status code,
\* or one of the exceptions requests raises.
StatusCodes == {200, 201, 404, 500}
NetOutcomes ==
    {[kind |-> "response", status_code |-> c] : c \in StatusCodes}
        \cup {[kind |-> k, status_code |-> 0] : k \in {"Timeout", "ConnectionError", "Exception"}}

\* No response: what _execute_http_request returns as None.
NoResponse == [kind |-> "none", status_code |-> 0]

\* What a probe of an address meets (requests.get at discovery.py:216).
ProbeStatusCodes == {200, 201, 301, 302, 303, 401, 403, 404, 500}
ProbeOutcomes ==
    {[kind |-> "response", status_code |-> c] : c \in ProbeStatusCodes}
        \cup {[kind |-> k, status_code |-> 0] : k \in {"Timeout", "ConnectionError", "Exception"}}

\* What _identify_receiver gets from the device's page: a response whose
\* text names a maker and holds a first match of the model pattern (None:
\* the text has none), or an exception of requests.
Page(kind, status_code, maker_text, model_text) ==
    [kind |-> kind, status_code |-> status_code, maker_text |-> maker_text,
     model_text |-> model_text]
NoPage == Page("none", 0, None, None)
IdentifyPages ==
    {Page("response", c, mk, md) :
        c \in {200, 404}, mk \in {"Denon", "Yamaha"},
        md \in {None, "AVR-X2300W", "avr-x2300w", "AVR-X9999"}}
        \cup {Page(k, 0, None, None) : k \in {"Timeout", "ConnectionError"}}

\* The body of a status response, as ElementTree sees it: whether it is
\* well-formed XML and, for each element the parser looks for, its text
\* ("<absent>": no such element, "<empty>": an element without text).
Absent == "<absent>"
Empty == "<empty>"
Body(well_formed, Power, MasterVolume, Mute, InputFuncSelect, selectSurround) ==
    [well_formed |-> well_formed, Power |-> Power, MasterVolume |-> MasterVolume,
     Mute |-> Mute, InputFuncSelect |-> InputFuncSelect,
     selectSurround |-> selectSurround]
NoBody == Body(FALSE, Absent, Absent, Absent, Absent, Absent)
StatusBodies ==
    {NoBody,
     Body(TRUE, "ON", "-40.0", "off", "SAT/CBL", "STEREO"),
     Body(TRUE, "ON", "-35.5", "on", "SAT/CBL", Absent),
     Body(TRUE, "STANDBY", "--", "off", "TV", Absent),
     Body(TRUE, "ON", Empty, "ON", Absent, Absent),
     Body(TRUE, "ON", "abc", Absent, "TV", Absent),
     Body(TRUE, "ON", "-40.0", Empty, "TV", Absent),
     Body(TRUE, "ON", "--", Empty, "TV", Absent),
     Body(TRUE, "ON", "inf", "off", "TV", Absent),
     Body(TRUE, Absent, Absent, Absent, Absent, Absent)}

\* A status dict: the keys it has and their values.
Status(keys, power, volume, mute, input, sound_mode, connection) ==
    [keys |-> keys, power |-> power, volume |-> volume, mute |-> mute,
     input |-> input, sound_mode |-> sound_mode, connection |-> connection]
\* None, where a status dict is expected.
NoStatus == Status({"<None>"}, Absent, 0, FALSE, Absent, Absent, Absent)
\* The empty dict.
EmptyStatus == Status({}, Absent, 0, FALSE, Absent, Absent, Absent)

\* The model names get_status is called with.
StatusModelNames == ModelNames \cup {"RX-V685"}

\* How a device answers: the outcome of a probe of its address and the
\* page identification gets from it.
Behaviour(probe, page) == [probe |-> probe, page |-> page]
Response(c) == [kind |-> "response", status_code |-> c]
Down == Behaviour([kind |-> "Timeout", status_code |-> 0], Page("Timeout", 0, None, None))
Behaviours ==
    {Behaviour(Response(200), Page("response", 200, "Denon", "avr-x2300w")),
     Behaviour(Response(200), Page("response", 200, "Denon", "AVR-X9999")),
     Behaviour(Response(200), Page("Timeout", 0, None, None)),
     Behaviour(Response(302), Page("response", 200, "Yamaha", None)),
     Behaviour(Response(401), Page("response", 404, "Denon", "AVR-X2300W")),
     Behaviour(Response(404), Page("response", 404, "Denon", "AVR-X2300W")),
     Behaviour(Response(403), Page("response", 200, "Denon", None)),
     Down}

\* An IPv4 address is its 32-bit number; 10.0.0.0 is 167772160.
Net10 == 167772160

\* A network where nothing answers, and the networks that are scanned:
\* devices at 10.0.0.1, 10.0.0.2 and 10.0.1.1, every other address is down.
QuietWorld == [a \in {} |-> Down]
World(b1, b2, b3) ==
    [a \in {Net10 + 1, Net10 + 2, Net10 + 257} |->
        IF a = Net10 + 1 THEN b1 ELSE IF a = Net10 + 2 THEN b2 ELSE b3]
Worlds ==
    {World(b1, Behaviour(Response(404), Page("response", 404, "Denon", "AVR-X2300W")),
           Behaviour(Response(200), Page("response", 200, "Denon", "avr-x2300w"))) :
        b1 \in Behaviours}
    \cup {World(b1, Behaviour(Response(302), Page("response", 200, "Yamaha", None)),
                Down) :
            b1 \in {Behaviour(Response(200), Page("response", 200, "Denon", "avr-x2300w")),
                    Behaviour([kind |-> "ConnectionError", status_code |-> 0],
                              Page("ConnectionError", 0, None, None))}}

\* A subnet argument: text ip_network() accepts, as address and prefix
\* length, or text it rejects.
Subnet(addr, prefix) == [valid |-> TRUE, addr |-> addr, prefix |-> prefix]
BadSubnet == [valid |-> FALSE, addr |-> 0, prefix |-> 0]

NoScan ==
    [op |-> "none", subnet |-> BadSubnet, probed |-> {}, requests |-> 0,
     ok |-> FALSE]

NoCall ==
    [op |-> "none", receiver_model |-> None, action_name |-> None, port |-> None,
     net |-> NoResponse, db_ok |-> TRUE, ret |-> FALSE, commands |-> << >>,
     requests |-> 0, url |-> << >>, command_template |-> << >>,
     parameters |-> Mapping(<< >>), raised |-> None,
     page |-> NoPage, rid |-> None, body |-> NoBody, status |-> NoStatus,
     added |-> 0, applied |-> {}, mute |-> None, muted |-> FALSE]

\* The receiver behind mute_toggle: whether it is muted, and what its
\* firmware does with PutVolumeMute/on. The seed records that request as
\* mute_on, 'Enable mute' (seed_database.py:122-131); mute_toggle.py:44
\* says it "acts as toggle on some models".
Device(muted, on_toggles) == [muted |-> muted, on_toggles |-> on_toggles]
QuietDevice == Device(FALSE, FALSE)

\* start_mdns_discovery of one DiscoveryService: pc is where the call
\* stands ("idle": no call is running), zeroconf is self.zeroconf (None
\* after __init__, discovery.py:90; then the Zeroconf object, "open" or
\* "closed"), browsers counts the ServiceBrowsers created, elapsed the
\* seconds of time.sleep(duration) gone by, error is whether the call
\* took the except branch, runs counts the calls that have returned.
NoMdns ==
    [pc |-> "idle", zeroconf |-> None, browsers |-> 0, duration |-> 0, elapsed |-> 0,
     error |-> FALSE, runs |-> 0]

Init ==
    /\ registry = << >>
    /\ now = 0
    /\ lock = [s \in Services |-> None]
    /\ pc = [t \in Threads |-> "idle"]
    /\ loc = [t \in Threads |-> NoLoc]
    /\ last = NoLast
    /\ catalog = SeedCatalog
    /\ httpCount = 0
    /\ call = NoCall
    /\ world = QuietWorld
    /\ scan = NoScan
    /\ device = QuietDevice
    /\ mdns = NoMdns

\* add_discovered_device, lines 249-278: take the service's lock, look the
\* address up, and prepare the change in the session: for a known address
\* last_seen = utcnow() and is_active = True on the loaded row (lines
\* 256-260), for a new one the record, with what _identify_receiver
\* returned (rid) as its receiver_id (lines 261-278).  utcnow() returns ts.
AddBegin(t, ip, s, rid, ts) ==
    /\ pc[t] = "idle"
    /\ lock[ServiceOf(t)] = None
    /\ ts \in ClockReads
    /\ LET e == FindByAddress(registry, ip)
       IN  /\ e = 0 => Len(registry) + PendingInserts < MaxRecords
           /\ rid \in (IF e = 0 THEN IdentifyOutcomes(ip) ELSE {None})
           /\ loc' = [loc EXCEPT ![t] =
                         [NoLoc EXCEPT !.op = "add", !.ip = ip, !.sighting = s,
                                       !.existing = e, !.rid = rid, !.ts = ts,
                                       !.loaded_active =
                                           IF e = 0 THEN FALSE ELSE registry[e].is_active]]
    /\ now' = ts + 1
    /\ lock' = [lock EXCEPT ![ServiceOf(t)] = t]
    /\ pc' = [pc EXCEPT ![t] = "pending"]
    /\ UNCHANGED <<registry, last>>
    /\ UNCHANGED <<execVars, scanVars, device, mdns>>

\* Mutant of ReleaseLock: the lock stays with its holder.
ReleaseLock_Held(lk, s) == lk

\* The end of the `with self._lock` block (line 249), reached by return
\* and by exception alike: the lock of service s is free.
ReleaseLock(lk, s) == [lk EXCEPT ![s] = None]

\* What the flush at commit leaves in the row of a re-sighted address.
\* Lines 258-259 assign last_seen and is_active on the loaded object; the
\* ORM's unit of work emits UPDATE ... SET only for the attributes whose
\* assigned value differs from the value that was loaded, so is_active is
\* written only when the row was loaded inactive.
UpdateExisting(row, loaded_active, t) ==
    [row EXCEPT !.last_seen = t,
                !.is_active = IF loaded_active THEN @ ELSE TRUE]

\* Mutant of CommitSighting: a re-sighting also stores the hostname it
\* carries.
CommitSighting_Overwrite(reg, l) ==
    IF l.existing = 0
    THEN Append(reg, NewRecord(l.ip, l.sighting, l.rid, l.ts))
    ELSE [reg EXCEPT ![l.existing] =
             [UpdateExisting(@, l.loaded_active, l.ts)
                 EXCEPT !.hostname = l.sighting.hostname]]

\* Mutant of CommitSighting: a re-sighting also stores how the device was
\* discovered this time.
CommitSighting_Reattribute(reg, l) ==
    IF l.existing = 0
    THEN Append(reg, NewRecord(l.ip, l.sighting, l.rid, l.ts))
    ELSE [reg EXCEPT ![l.existing] =
             [UpdateExisting(@, l.loaded_active, l.ts)
                 EXCEPT !.discovery_method = l.sighting.discovery_method]]

\* The table after session.commit() of a sighting (line 280).
CommitSighting(reg, l) ==
    IF l.existing = 0
    THEN Append(reg, NewRecord(l.ip, l.sighting, l.rid, l.ts))
    ELSE [reg EXCEPT ![l.existing] = UpdateExisting(@, l.loaded_active, l.ts)]

\* add_discovered_device, line 280 and the end of the with block: commit
\* and release the lock.
AddCommit(t) ==
    /\ pc[t] = "pending"
    /\ loc[t].op = "add"
    /\ registry' = CommitSighting(registry, loc[t])
    /\ lock' = ReleaseLock(lock, ServiceOf(t))
    /\ pc' = [pc EXCEPT ![t] = "idle"]
    /\ loc' = [loc EXCEPT ![t] = NoLoc]
    /\ last' = [NoLast EXCEPT !.op = "add", !.ok = TRUE,
                              !.ids = {IF loc[t].existing = 0 THEN Len(registry) + 1
                                                              ELSE loc[t].existing},
                              !.hostname = loc[t].sighting.hostname]
    /\ UNCHANGED now
    /\ UNCHANGED <<execVars, scanVars, device, mdns>>

\* Mutant of Rollback: the changes a sighting had pending are written.
Rollback_Written(reg, l) == IF l.op = "add" THEN CommitSighting(reg, l) ELSE reg

\* session.rollback() (lines 284 and 386): the changes pending in the
\* session (l) are dropped, the table stays what it is.
Rollback(reg, l) == reg

\* add_discovered_device, lines 282-284: the commit raised; roll back (the
\* table is left as it was) and release the lock.
AddFail(t) ==
    /\ pc[t] = "pending"
    /\ loc[t].op = "add"
    /\ lock' = ReleaseLock(lock, ServiceOf(t))
    /\ pc' = [pc EXCEPT ![t] = "idle"]
    /\ loc' = [loc EXCEPT ![t] = NoLoc]
    /\ last' = [NoLast EXCEPT !.op = "add", !.hostname = loc[t].sighting.hostname]
    /\ registry' = Rollback(registry, loc[t])
    /\ UNCHANGED now
    /\ UNCHANGED <<execVars, scanVars, device, mdns>>

\* timedelta(hours=max_age_hours): one clock unit is one hour.
CutoffTime(t, max_age_hours) == t - max_age_hours

\* Mutant of StaleQuery: the comparison with the cutoff is not strict.
StaleQuery_AtCutoff(reg, cutoff_time) ==
    {i \in DOMAIN reg : reg[i].last_seen <= cutoff_time /\ reg[i].is_active = TRUE}

\* The rows the sweep's query selects (lines 373-376).
StaleQuery(reg, cutoff_time) ==
    {i \in DOMAIN reg : reg[i].last_seen < cutoff_time /\ reg[i].is_active = TRUE}

\* cleanup_stale_devices, lines 371-376: compute the cutoff from utcnow()
\* (which returns ts) and load the stale rows.  No lock is taken.
SweepBegin(t, max_age_hours, ts) ==
    /\ pc[t] = "idle"
    /\ ts \in ClockReads
    /\ LET cutoff_time == CutoffTime(ts, max_age_hours)
       IN  loc' = [loc EXCEPT ![t] =
                      [NoLoc EXCEPT !.op = "sweep", !.cutoff = cutoff_time,
                                    !.stale = StaleQuery(registry, cutoff_time)]]
    /\ now' = ts + 1
    /\ pc' = [pc EXCEPT ![t] = "swept"]
    /\ UNCHANGED <<registry, lock, last>>
    /\ UNCHANGED <<execVars, scanVars, device, mdns>>

\* Mutant of MarkInactive: the sweep deletes the stale rows.
RECURSIVE DeleteRows(_, _, _)
DeleteRows(reg, stale, i) ==
    IF i > Len(reg) THEN << >>
    ELSE (IF i \in stale THEN << >> ELSE <<reg[i]>>) \o DeleteRows(reg, stale, i + 1)
MarkInactive_Delete(reg, stale) == DeleteRows(reg, stale, 1)

\* The table after the sweep's loop and commit (lines 378-382): each
\* loaded row gets UPDATE ... SET is_active = 0.
MarkInactive(reg, stale) ==
    [i \in DOMAIN reg |->
        IF i \in stale THEN [reg[i] EXCEPT !.is_active = FALSE] ELSE reg[i]]

\* cleanup_stale_devices, lines 378-382.
SweepCommit(t) ==
    /\ pc[t] = "swept"
    /\ registry' = MarkInactive(registry, loc[t].stale)
    /\ pc' = [pc EXCEPT ![t] = "idle"]
    /\ loc' = [loc EXCEPT ![t] = NoLoc]
    /\ last' = [NoLast EXCEPT !.op = "sweep", !.ok = TRUE, !.ids = loc[t].stale]
    /\ UNCHANGED <<now, lock>>
    /\ UNCHANGED <<execVars, scanVars, device, mdns>>

\* cleanup_stale_devices, lines 384-386: the commit raised; roll back.
SweepFail(t) ==
    /\ pc[t] = "swept"
    /\ pc' = [pc EXCEPT ![t] = "idle"]
    /\ loc' = [loc EXCEPT ![t] = NoLoc]
    /\ last' = [NoLast EXCEPT !.op = "sweep"]
    /\ registry' = Rollback(registry, loc[t])
    /\ UNCHANGED <<now, lock>>
    /\ UNCHANGED <<execVars, scanVars, device, mdns>>

\* order_by(last_seen.desc()): the ids of `ids`, newest first.
RECURSIVE OrderByLastSeenDesc(_, _)
OrderByLastSeenDesc(reg, ids) ==
    IF ids = {} THEN << >>
    ELSE LET m == CHOOSE i \in ids :
                    \A j \in ids : \/ reg[i].last_seen > reg[j].last_seen
                                   \/ (reg[i].last_seen = reg[j].last_seen /\ i <= j)
         IN  <<m>> \o OrderByLastSeenDesc(reg, ids \ {m})

\* Mutant of get_discovered_receivers: the filter of line 341 is left out.
get_discovered_receivers_Unfiltered(reg, active_only) ==
    LET ord == OrderByLastSeenDesc(reg, DOMAIN reg)
    IN  [k \in 1..Len(ord) |->
            [id           |-> ord[k],
             ip_address   |-> reg[ord[k]].ip_address,
             model        |-> IF reg[ord[k]].receiver_id # None THEN "AVR-X2300W" ELSE "Unknown",
             manufacturer |-> IF reg[ord[k]].receiver_id # None THEN "Denon" ELSE "Unknown",
             last_seen    |-> reg[ord[k]].last_seen]]

\* get_discovered_receivers (lines 338-355).
get_discovered_receivers(reg, active_only) ==
    LET ids == {i \in DOMAIN reg : active_only => reg[i].is_active = TRUE}
        ord == OrderByLastSeenDesc(reg, ids)
    IN  [k \in 1..Len(ord) |->
            [id           |-> ord[k],
             ip_address   |-> reg[ord[k]].ip_address,
             model        |-> IF reg[ord[k]].receiver_id # None THEN "AVR-X2300W" ELSE "Unknown",
             manufacturer |-> IF reg[ord[k]].receiver_id # None THEN "Denon" ELSE "Unknown",
             last_seen    |-> reg[ord[k]].last_seen]]

\* A caller lists the devices.
ListDevices(t, active_only) ==
    /\ pc[t] = "idle"
    /\ last' = [NoLast EXCEPT !.op = "list", !.ok = TRUE,
                              !.active_only = active_only,
                              !.result = get_discovered_receivers(registry, active_only)]
    /\ UNCHANGED <<registry, now, lock, pc, loc>>
    /\ UNCHANGED <<execVars, scanVars, device, mdns>>

Next ==
    \/ \E t \in Threads, ip \in Addrs, s \in Sightings, ts \in ClockReads :
          \E rid \in IdentifyOutcomes(ip) : AddBegin(t, ip, s, rid, ts)
    \/ \E t \in Threads : AddCommit(t)
    \/ \E t \in Threads : AddFail(t)
    \/ \E t \in Callers, h \in 1..MaxAgeHours, ts \in ClockReads : SweepBegin(t, h, ts)
    \/ \E t \in Callers : SweepCommit(t)
    \/ \E t \in Callers : SweepFail(t)
    \/ \E t \in Callers, a \in BOOLEAN : ListDevices(t, a)

Spec == Init /\ [][Next]_vars

\* The sightings of the two browser threads of one service alone, on a
\* clock that advances by one at each read, with threads that go on running
\* once they are inside add_discovered_device: the commit returns or
\* raises, and the with block ends.
BrowserThreads == {t \in Threads : ServiceOf(t) = "s1"}
NextAdd ==
    \/ \E t \in BrowserThreads, ip \in Addrs, s \in Sightings :
          \E rid \in IdentifyOutcomes(ip) : AddBegin(t, ip, s, rid, now)
    \/ \E t \in BrowserThreads : AddCommit(t)
    \/ \E t \in BrowserThreads : AddFail(t)

SpecAdd ==
    Init /\ [][NextAdd]_vars /\ \A t \in Threads : WF_vars(AddCommit(t) \/ AddFail(t))

\* ============================================================== executor

\* session.query(Receiver).filter_by(model=receiver_model).first()
\* (lines 57, 192): the index of the row, 0 for None.
FindReceiver(cat, receiver_model) ==
    LET hits == {i \in DOMAIN cat.receivers : cat.receivers[i].model = receiver_model}
    IN  IF hits = {} THEN 0 ELSE CHOOSE i \in hits : \A j \in hits : i <= j

\* session.query(Command).filter_by(receiver_id=..., action_name=...).first()
\* (lines 63-66): the index of the row, 0 for None.
FindCommand(cat, receiver_id, action_name) ==
    LET hits == {i \in DOMAIN cat.commands :
                    /\ cat.commands[i].receiver_id = receiver_id
                    /\ cat.commands[i].action_name = action_name}
    IN  IF hits = {} THEN 0 ELSE CHOOSE i \in hits : \A j \in hits : i <= j

\* str.upper() on the method texts of the catalogs.
Upper(method) ==
    CASE method = "get" -> "GET"
      [] method = "avr-x2300w" -> "AVR-X2300W"
      [] method = "avr-x9999" -> "AVR-X9999"
      [] OTHER -> method

\* Mutant of Dispatches: a method the chain does not know falls back to GET.
Dispatches_Fallback(method) == method # None

\* _execute_http_request, lines 156-167: whether a requests.* call is made
\* for this method.  None has no upper(): the AttributeError is caught at
\* line 177 before any request.
Dispatches(method) ==
    /\ method # None
    /\ Upper(method) \in {"GET", "POST", "PUT", "DELETE"}

\* Mutant of ExecuteHttpRequest: a request that timed out is sent again.
ExecuteHttpRequest_Retry(method, net) ==
    IF Dispatches(method)
    THEN [response |-> IF net.kind = "response" THEN net ELSE NoResponse,
          requests |-> IF net.kind = "Timeout" THEN 2 ELSE 1]
    ELSE [response |-> NoResponse, requests |-> 0]

\* _execute_http_request (lines 155-179): the response it returns (None on
\* an unsupported method and on every exception) and the requests issued.
ExecuteHttpRequest(method, net) ==
    IF Dispatches(method)
    THEN [response |-> IF net.kind = "response" THEN net ELSE NoResponse, requests |-> 1]
    ELSE [response |-> NoResponse, requests |-> 0]

\* Mutant of IsSuccess: any response that is truthy counts as success.
IsSuccess_Truthy(response) ==
    response # NoResponse /\ response.status_code < 400

\* Line 89, `response and response.status_code == 200`: a Response is
\* truthy when its status is below 400.
IsSuccess(response) ==
    /\ response # NoResponse
    /\ response.status_code < 400
    /\ response.status_code = 200

\* str(n) for a non-negative int.
DigitChar(d) ==
    CASE d = 0 -> "0" [] d = 1 -> "1" [] d = 2 -> "2" [] d = 3 -> "3" [] d = 4 -> "4"
      [] d = 5 -> "5" [] d = 6 -> "6" [] d = 7 -> "7" [] d = 8 -> "8" [] d = 9 -> "9"
RECURSIVE Digits(_)
Digits(n) == IF n < 10 THEN <<DigitChar(n)>> ELSE Digits(n \div 10) \o <<DigitChar(n % 10)>>

\* str(value), line 128.
StrOf(value) == IF value.type = "int" THEN Digits(value.n) ELSE value.s

\* placeholder = f"{{{key}}}", line 127.
Placeholder(key) == <<"{">> \o key \o <<"}">>

\* s starts with old at position i.
MatchesAt(s, old, i) ==
    /\ i + Len(old) - 1 <= Len(s)
    /\ \A k \in 1..Len(old) : s[i + k - 1] = old[k]

\* Mutant of ReplaceFrom: only the first occurrence is replaced
\* (str.replace(old, new, 1)).
RECURSIVE ReplaceFrom_First(_, _, _, _)
ReplaceFrom_First(s, old, new, i) ==
    IF i > Len(s) THEN << >>
    ELSE IF MatchesAt(s, old, i)
         THEN new \o SubSeq(s, i + Len(old), Len(s))
         ELSE <<s[i]>> \o ReplaceFrom_First(s, old, new, i + 1)

\* str.replace(old, new) for a non-empty old, from position i on: the
\* occurrences are found left to right, without overlap, in s itself; the
\* text put in is not searched again.
RECURSIVE ReplaceFrom(_, _, _, _)
ReplaceFrom(s, old, new, i) ==
    IF i > Len(s) THEN << >>
    ELSE IF MatchesAt(s, old, i)
         THEN new \o ReplaceFrom(s, old, new, i + Len(old))
         ELSE <<s[i]>> \o ReplaceFrom(s, old, new, i + 1)

\* _build_url, lines 125-128: one replace per item of the mapping, in the
\* mapping's order, each on the result of the one before.
RECURSIVE ResolveTemplate(_, _)
ResolveTemplate(command_string, items) ==
    IF items = << >> THEN command_string
    ELSE ResolveTemplate(
             ReplaceFrom(command_string, Placeholder(Head(items).key),
                         StrOf(Head(items).value), 1),
             Tail(items))

\* _build_url (lines 124-132): the URL as the sequence of its pieces, the
\* resolved template character by character.
BuildUrl(protocol, host, port, endpoint, command_template, parameters) ==
    <<protocol, "://", host, ":", port, endpoint>>
        \o ResolveTemplate(command_template, parameters.items)

\* What a path through the try block of execute_command gives.
Returned(ret, requests, url) ==
    [ret |-> ret, requests |-> requests, url |-> url, raised |-> None]
Raised(exception) ==
    [ret |-> FALSE, requests |-> 0, url |-> << >>, raised |-> exception]

\* Mutant of ExecuteCommandBody: a placeholder left in the resolved
\* template is treated as a validation error, nothing is sent.
ExecuteCommandBody_Validate(cat, receiver_model, action_name, host, port, parameters, net, db_ok) ==
    IF ~db_ok THEN Raised("SQLAlchemyError")
    ELSE LET receiver == FindReceiver(cat, receiver_model)
         IN  IF receiver = 0 THEN Returned(FALSE, 0, << >>)
             ELSE LET rcv == cat.receivers[receiver]
                      command == FindCommand(cat, rcv.id, action_name)
                  IN  IF command = 0 THEN Returned(FALSE, 0, << >>)
                      ELSE IF ~parameters.mapping THEN Raised("AttributeError")
                      ELSE LET cmd == cat.commands[command]
                               eff_port == IF port = None THEN rcv.default_port ELSE port
                               url == BuildUrl(rcv.protocol, host, eff_port, cmd.endpoint,
                                               cmd.command_template, parameters)
                               r == ExecuteHttpRequest(cmd.http_method, net)
                           IN  IF \E k \in DOMAIN url : url[k] \in {"{", "}"}
                               THEN Returned(FALSE, 0, url)
                               ELSE Returned(IsSuccess(r.response), r.requests, url)

\* The try block of execute_command (lines 56-95): what it returns, how
\* many HTTP requests it issues and the URL it built, or the exception it
\* raises: a catalog query that fails (db_ok = FALSE), or parameters.items()
\* on an object that is no mapping (line 126).
ExecuteCommandBody(cat, receiver_model, action_name, host, port, parameters, net, db_ok) ==
    IF ~db_ok THEN Raised("SQLAlchemyError")
    ELSE LET receiver == FindReceiver(cat, receiver_model)
         IN  IF receiver = 0 THEN Returned(FALSE, 0, << >>)
             ELSE LET rcv == cat.receivers[receiver]
                      command == FindCommand(cat, rcv.id, action_name)
                  IN  IF command = 0 THEN Returned(FALSE, 0, << >>)
                      ELSE IF ~parameters.mapping THEN Raised("AttributeError")
                      ELSE LET cmd == cat.commands[command]
                               eff_port == IF port = None THEN rcv.default_port ELSE port
                               url == BuildUrl(rcv.protocol, host, eff_port, cmd.endpoint,
                                               cmd.command_template, parameters)
                               r == ExecuteHttpRequest(cmd.http_method, net)
                           IN  Returned(IsSuccess(r.response), r.requests, url)

\* Mutant of ExceptException: the call has no except clause.
ExceptException_Missing(outcome) == outcome

\* `except Exception` of execute_command (lines 97-99): log and return False.
ExceptException(outcome) ==
    IF outcome.raised # None
    THEN [outcome EXCEPT !.ret = FALSE, !.raised = None]
    ELSE outcome

\* Mutant of ExecuteCommandResult: a missing command is not checked for, the
\* model's first command is sent instead.
ExecuteCommandResult_NoCheck(cat, receiver_model, action_name, host, port, parameters, net, db_ok) ==
    LET receiver == FindReceiver(cat, receiver_model)
    IN  IF ~db_ok \/ receiver = 0 \/ cat.commands = << >>
        THEN Returned(FALSE, 0, << >>)
        ELSE LET r == ExecuteHttpRequest(cat.commands[1].http_method, net)
             IN  Returned(IsSuccess(r.response), r.requests, << >>)

\* execute_command (lines 53-99).
ExecuteCommandResult(cat, receiver_model, action_name, host, port, parameters, net, db_ok) ==
    ExceptException(ExecuteCommandBody(cat, receiver_model, action_name, host, port,
                                       parameters, net, db_ok))

\* A caller runs execute_command.
ExecuteCommand(receiver_model, action_name, host, port, parameters, net, db_ok) ==
    LET r == ExecuteCommandResult(catalog, receiver_model, action_name, host, port,
                                  parameters, net, db_ok)
    IN  /\ httpCount + r.requests <= MaxRequests
        /\ httpCount' = httpCount + r.requests
        /\ call' = [NoCall EXCEPT !.op = "execute_command",
                                  !.receiver_model = receiver_model,
                                  !.action_name = action_name, !.port = port,
                                  !.parameters = parameters,
                                  !.net = net, !.db_ok = db_ok,
                                  !.ret = r.ret, !.requests = r.requests,
                                  !.url = r.url, !.raised = r.raised]
        /\ UNCHANGED catalog
        /\ UNCHANGED <<discVars, scanVars, device, mdns>>

\* get_available_commands (lines 191-215): the projection of the model's
\* commands, [] for an unknown model and when a query raises.
AvailableCommands(cat, receiver_model, db_ok) ==
    LET receiver == FindReceiver(cat, receiver_model)
    IN  IF ~db_ok \/ receiver = 0 THEN << >>
        ELSE LET Mine(c) == c.receiver_id = cat.receivers[receiver].id
                 rows == SelectSeq(cat.commands, Mine)
             IN  [k \in 1..Len(rows) |->
                     [action_type |-> rows[k].action_type,
                      action_name |-> rows[k].action_name]]

\* A caller runs get_available_commands.
GetAvailableCommands(receiver_model, db_ok) ==
    /\ call' = [NoCall EXCEPT !.op = "get_available_commands",
                              !.receiver_model = receiver_model, !.db_ok = db_ok,
                              !.commands = AvailableCommands(catalog, receiver_model, db_ok)]
    /\ UNCHANGED <<catalog, httpCount>>
    /\ UNCHANGED <<discVars, scanVars, device, mdns>>

InitExec ==
    /\ registry = << >>
    /\ now = 0
    /\ lock = [s \in Services |-> None]
    /\ pc = [t \in Threads |-> "idle"]
    /\ loc = [t \in Threads |-> NoLoc]
    /\ last = NoLast
    /\ catalog \in Catalogs
    /\ httpCount = 0
    /\ call = NoCall
    /\ world = QuietWorld
    /\ scan = NoScan
    /\ device = QuietDevice
    /\ mdns = NoMdns

\* ------------------------------------- probe, identification and status

\* str.lower() on the texts of the pages and bodies.
Lower(text) ==
    CASE text = "Denon" -> "denon"
      [] text = "Yamaha" -> "yamaha"
      [] text = "AVR-X2300W" -> "avr-x2300w"
      [] text = "AVR-X9999" -> "avr-x9999"
      [] text = "ON" -> "on"
      [] OTHER -> text

\* Mutant of ProbeHttpDevice: every response counts as a device.
ProbeHttpDevice_AnyStatus(net) ==
    [ret |-> net.kind = "response", requests |-> 1]

\* _probe_http_device (discovery.py:214-229): one GET; True for the status
\* codes of line 220; the exceptions of requests are swallowed (lines
\* 224-227) and give False.
ProbeHttpDevice(net) ==
    [ret |-> /\ net.kind = "response"
             /\ net.status_code \in {200, 301, 302, 401, 403},
     requests |-> 1]

\* session.query(Receiver).filter_by(manufacturer=..., model=...).first()
\* (discovery.py:312-315): the index of the row, 0 for None.
FindReceiverByMakerAndModel(cat, manufacturer, model) ==
    LET hits == {i \in DOMAIN cat.receivers :
                    /\ cat.receivers[i].manufacturer = manufacturer
                    /\ cat.receivers[i].model = model}
    IN  IF hits = {} THEN 0 ELSE CHOOSE i \in hits : \A j \in hits : i <= j

\* Mutant of IdentifyReceiver: the catalog is not consulted, any Denon page
\* with a model number is given the first receiver of the catalog.
IdentifyReceiver_NoLookup(cat, page, db_ok) ==
    [rid |-> IF /\ page.kind = "response" /\ page.status_code = 200
                /\ Lower(page.maker_text) = "denon" /\ page.model_text # None
                /\ cat.receivers # << >>
             THEN cat.receivers[1].id ELSE None,
     requests |-> 1]

\* _identify_receiver (discovery.py:297-325): one GET of the device's page;
\* the id of the catalog's receiver when the page answers 200, its text in
\* lower case has 'denon' in it and a match of the model pattern, and the
\* catalog has a Denon receiver of that model in upper case; None
\* otherwise and on every exception (of requests, or of the query when
\* db_ok is FALSE).
IdentifyReceiver(cat, page, db_ok) ==
    [rid |->
        IF page.kind # "response" THEN None
        ELSE IF page.status_code # 200 THEN None
        ELSE IF Lower(page.maker_text) # "denon" THEN None
        ELSE IF page.model_text = None THEN None
        ELSE IF ~db_ok THEN None
        ELSE LET receiver == FindReceiverByMakerAndModel(
                                 cat, "Denon", Upper(Lower(page.model_text)))
             IN  IF receiver = 0 THEN None ELSE cat.receivers[receiver].id,
     requests |-> 1]

\* int(float(volume_str)) for the volume texts of the bodies that float()
\* accepts: the value is cut towards zero.
IsFloatText(text) == text \in {"-40.0", "-35.5"}
IntOfFloat(text) == CASE text = "-40.0" -> -40 [] text = "-35.5" -> -35

\* int(float('inf')) raises OverflowError, which line 102 does not catch.
VolumeOverflows(text) == text = "inf"

\* receiver_status.py:92-104: the volume of a MasterVolume text.
VolumeOf(text) ==
    IF text = Empty \/ text = "--" THEN -40
    ELSE IF IsFloatText(text) THEN IntOfFloat(text)
    ELSE -40

\* _parse_denon_xml_status (receiver_status.py:82-133): {} for a body that
\* is not well-formed (ParseError), for a volume text that overflows int()
\* (line 99) and for a Mute element without text, on which .lower() is
\* called (line 109); both are caught at line 131.
ParseDenonXmlStatus(body) ==
    IF ~body.well_formed THEN EmptyStatus
    ELSE IF VolumeOverflows(body.MasterVolume) THEN EmptyStatus
    ELSE IF body.Mute = Empty THEN EmptyStatus
    ELSE Status(
             {"connection"}
                 \cup (IF body.Power # Absent THEN {"power"} ELSE {})
                 \cup (IF body.MasterVolume # Absent THEN {"volume"} ELSE {})
                 \cup (IF body.Mute # Absent THEN {"mute"} ELSE {})
                 \cup (IF body.InputFuncSelect # Absent THEN {"input"} ELSE {})
                 \cup (IF body.selectSurround # Absent THEN {"sound_mode"} ELSE {}),
             body.Power,
             IF body.MasterVolume # Absent THEN VolumeOf(body.MasterVolume) ELSE 0,
             IF body.Mute # Absent THEN Lower(body.Mute) = "on" ELSE FALSE,
             body.InputFuncSelect,
             body.selectSurround,
             "Connected")

\* get_denon_status (receiver_status.py:40-61): one GET; the parsed body
\* of a 200 response, None for another status and for every exception.
GetDenonStatus(net, body) ==
    [status |-> IF net.kind = "response" /\ net.status_code = 200
                THEN ParseDenonXmlStatus(body) ELSE NoStatus,
     requests |-> 1]

\* 'AVR' in receiver_model or 'Denon' in receiver_model, line 148.
NamesDenon(receiver_model) == receiver_model \in {"AVR-X2300W", "AVR-X9999"}

\* The defaults of get_status (lines 155-161).
DefaultStatus ==
    Status({"power", "volume", "mute", "input", "connection"},
           "UNKNOWN", -40, FALSE, "--", Absent, "Disconnected")

\* Mutant of GetStatus: only None is replaced by the defaults.
GetStatus_IsNotNone(receiver_model, net, body) ==
    IF NamesDenon(receiver_model)
    THEN LET r == GetDenonStatus(net, body)
         IN  [status |-> IF r.status # NoStatus THEN r.status ELSE DefaultStatus,
              requests |-> r.requests]
    ELSE [status |-> DefaultStatus, requests |-> 0]

\* get_status (receiver_status.py:147-161): `if status` is false for None
\* and for {}.
GetStatus(receiver_model, net, body) ==
    IF NamesDenon(receiver_model)
    THEN LET r == GetDenonStatus(net, body)
         IN  [status |-> IF r.status # NoStatus /\ r.status.keys # {}
                         THEN r.status ELSE DefaultStatus,
              requests |-> r.requests]
    ELSE [status |-> DefaultStatus, requests |-> 0]

\* A caller probes an address.
ProbeCall(net) ==
    LET r == ProbeHttpDevice(net)
    IN  /\ httpCount + r.requests <= MaxRequests
        /\ httpCount' = httpCount + r.requests
        /\ call' = [NoCall EXCEPT !.op = "_probe_http_device", !.net = net,
                                  !.ret = r.ret, !.requests = r.requests]
        /\ UNCHANGED catalog
        /\ UNCHANGED <<discVars, scanVars, device, mdns>>

\* A caller has a new address identified.
IdentifyCall(page, db_ok) ==
    LET r == IdentifyReceiver(catalog, page, db_ok)
    IN  /\ httpCount + r.requests <= MaxRequests
        /\ httpCount' = httpCount + r.requests
        /\ call' = [NoCall EXCEPT !.op = "_identify_receiver", !.page = page,
                                  !.db_ok = db_ok, !.rid = r.rid,
                                  !.requests = r.requests]
        /\ UNCHANGED catalog
        /\ UNCHANGED <<discVars, scanVars, device, mdns>>

\* A caller asks for a receiver's status.
StatusCall(receiver_model, net, body) ==
    LET r == GetStatus(receiver_model, net, body)
    IN  /\ httpCount + r.requests <= MaxRequests
        /\ httpCount' = httpCount + r.requests
        /\ call' = [NoCall EXCEPT !.op = "get_status",
                                  !.receiver_model = receiver_model, !.net = net,
                                  !.body = body, !.status = r.status,
                                  !.requests = r.requests]
        /\ UNCHANGED catalog
        /\ UNCHANGED <<discVars, scanVars, device, mdns>>

\* The status queries: every body in a 200 response, and every other
\* network outcome.
StatusInputs ==
    {[receiver_model |-> m, net |-> net, body |-> b] :
        m \in StatusModelNames,
        net \in {n \in NetOutcomes : n.status_code = 200}, b \in StatusBodies}
    \cup
    {[receiver_model |-> m, net |-> net, body |-> NoBody] :
        m \in StatusModelNames, net \in NetOutcomes}

\* The calls of execute_command: every model, action and network outcome
\* with the default port and no parameters, and for some actions every
\* port, parameters argument and catalog failure as well.
ExecInputs ==
    {[receiver_model |-> m, action_name |-> a, host |-> h, port |-> None,
      parameters |-> Mapping(<< >>), net |-> net, db_ok |-> TRUE] :
        m \in ModelNames, a \in ActionNames, h \in Hosts, net \in NetOutcomes}
    \cup
    {[receiver_model |-> m, action_name |-> a, host |-> h, port |-> p,
      parameters |-> q, net |-> net, db_ok |-> d] :
        m \in ModelNames,
        a \in {"power_on", "volume_set", "power_patch", "no_such_action"},
        h \in Hosts, p \in PortArgs, q \in ParamArgs,
        net \in {n \in NetOutcomes : n.status_code = 200 \/ n.kind = "Timeout"},
        d \in BOOLEAN}

NextExec ==
    \/ \E i \in ExecInputs :
          ExecuteCommand(i.receiver_model, i.action_name, i.host, i.port,
                         i.parameters, i.net, i.db_ok)
    \/ \E m \in ModelNames, db_ok \in BOOLEAN : GetAvailableCommands(m, db_ok)
    \/ \E net \in ProbeOutcomes : ProbeCall(net)
    \/ \E page \in IdentifyPages, db_ok \in BOOLEAN : IdentifyCall(page, db_ok)
    \/ \E i \in StatusInputs : StatusCall(i.receiver_model, i.net, i.body)

SpecExec == InitExec /\ [][NextExec]_vars

\* ================================================================== scan

\* The subnets a scan is asked for: 10.0.0.77/24 (host bits set),
\* 10.0.1.0/24, 10.0.1.0/23 and 10.0.0.0/16 (more than 256 addresses), small
\* networks, and text that is no network.
Subnets ==
    {Subnet(Net10 + 77, 24), Subnet(Net10 + 256, 24), Subnet(Net10 + 256, 23),
     Subnet(Net10, 16), Subnet(Net10, 30), Subnet(Net10, 31),
     Subnet(Net10 + 1, 32), BadSubnet}

\* What scan_network_range passes to add_discovered_device (lines 167-171).
ProbeSighting == [discovery_method |-> "http_probe", port |-> 80, hostname |-> None]

\* str(ip) of an address.
Octets(a) == <<a \div 16777216, (a \div 65536) % 256, (a \div 256) % 256, a % 256>>
IpStr(a) ==
    ToString(Octets(a)[1]) \o "." \o ToString(Octets(a)[2]) \o "."
        \o ToString(Octets(a)[3]) \o "." \o ToString(Octets(a)[4])

\* ipaddress.ip_network(subnet, strict=False) (line 153): the host bits of
\* the address are dropped.
IpNetwork(addr, prefix) ==
    [network_address |-> addr - (addr % (2 ^ (32 - prefix))),
     prefixlen |-> prefix,
     num_addresses |-> 2 ^ (32 - prefix)]

\* Mutant of LimitNetwork: only a network of more than 512 addresses is
\* narrowed.
LimitNetwork_Over512(network) ==
    IF network.num_addresses > 512
    THEN IpNetwork(network.network_address - (network.network_address % 256), 24)
    ELSE network

\* Lines 156-161: a network of more than 256 addresses is replaced by the
\* /24 named by the first three octets of its network address.
LimitNetwork(network) ==
    IF network.num_addresses > 256
    THEN LET parts == Octets(network.network_address)
         IN  IpNetwork(parts[1] * 16777216 + parts[2] * 65536 + parts[3] * 256 + 0, 24)
    ELSE network

\* network.hosts() (line 164): the addresses from first to last; for a
\* /31 both addresses, for a /32 the address itself, otherwise all but
\* the network and the broadcast address.
HostRange(network) ==
    IF network.prefixlen = 32
    THEN [first |-> network.network_address, last |-> network.network_address]
    ELSE IF network.prefixlen = 31
    THEN [first |-> network.network_address, last |-> network.network_address + 1]
    ELSE [first |-> network.network_address + 1,
          last |-> network.network_address + network.num_addresses - 2]

\* How the device at an address answers.
BehaviourAt(w, a) == IF a \in DOMAIN w THEN w[a] ELSE Down

\* add_discovered_device (lines 249-284) run on its own, with no other
\* thread at work: the merge of AddBegin and AddCommit in one piece.  The
\* clock read returns t; identification (one request) runs for a new
\* address only.
AddDiscoveredDevice(reg, cat, ip, s, page, t) ==
    LET e == FindByAddress(reg, ip)
        l == [NoLoc EXCEPT !.op = "add", !.ip = ip, !.sighting = s, !.existing = e,
                           !.rid = IF e = 0 THEN IdentifyReceiver(cat, page, TRUE).rid
                                            ELSE None,
                           !.ts = t,
                           !.loaded_active = IF e = 0 THEN FALSE ELSE reg[e].is_active]
    IN  [reg |-> CommitSighting(reg, l), now |-> t + 1,
         requests |-> IF e = 0 THEN 1 ELSE 0]

\* One turn of the loop of lines 164-171: probe the address, and merge a
\* sighting when the probe says so.
ScanAddress(w, cat, ip, st) ==
    LET b == BehaviourAt(w, ip)
        probe == ProbeHttpDevice(b.probe)
        merge == IF probe.ret
                 THEN AddDiscoveredDevice(st.reg, cat, IpStr(ip), ProbeSighting,
                                          b.page, st.now)
                 ELSE [reg |-> st.reg, now |-> st.now, requests |-> 0]
    IN  [reg |-> merge.reg, now |-> merge.now,
         probed |-> st.probed \cup {ip},
         requests |-> st.requests + probe.requests + merge.requests]

\* The loop of lines 164-171 over the addresses ip..last_ip in rising
\* order (the range is halved so that the evaluation stays shallow; the
\* lower half is always scanned before the upper one).  A scan whose
\* clock has passed MaxTime is cut short: ScanNetworkRange discards it.
RECURSIVE ScanLoop(_, _, _, _, _)
ScanLoop(w, cat, ip, last_ip, st) ==
    IF st.now > MaxTime \/ ip > last_ip THEN st
    ELSE IF ip = last_ip THEN ScanAddress(w, cat, ip, st)
    ELSE LET mid == (ip + last_ip) \div 2
         IN  ScanLoop(w, cat, mid + 1, last_ip, ScanLoop(w, cat, ip, mid, st))

\* scan_network_range (lines 148-176) for a resolved subnet: text that is
\* no network raises ValueError at line 153, which line 175 logs.
ScanNetworkRange(subnet) ==
    /\ \A t \in Threads : pc[t] = "idle"
    /\ IF ~subnet.valid
       THEN /\ scan' = [NoScan EXCEPT !.op = "scan_network_range", !.subnet = subnet]
            /\ UNCHANGED <<registry, now>>
       ELSE LET network == LimitNetwork(IpNetwork(subnet.addr, subnet.prefix))
                range == HostRange(network)
                r == ScanLoop(world, catalog, range.first, range.last,
                              [reg |-> registry, now |-> now, probed |-> {},
                               requests |-> 0])
            IN  /\ r.now <= MaxTime
                /\ registry' = r.reg
                /\ now' = r.now
                /\ scan' = [op |-> "scan_network_range", subnet |-> subnet,
                            probed |-> r.probed, requests |-> r.requests, ok |-> TRUE]
    /\ UNCHANGED <<lock, pc, loc, last, world, device, mdns>>
    /\ UNCHANGED execVars

InitScan ==
    /\ registry = << >>
    /\ now = 0
    /\ lock = [s \in Services |-> None]
    /\ pc = [t \in Threads |-> "idle"]
    /\ loc = [t \in Threads |-> NoLoc]
    /\ last = NoLast
    /\ catalog = SeedCatalog
    /\ httpCount = 0
    /\ call = NoCall
    /\ world \in Worlds
    /\ scan = NoScan
    /\ device = QuietDevice
    /\ mdns = NoMdns

NextScan ==
    \E subnet \in Subnets : ScanNetworkRange(subnet)

SpecScan == InitScan /\ [][NextScan]_vars

\* ========================================================== URL assembly

\* Templates _build_url is given: the seed's, one with two placeholders,
\* one with a placeholder twice, and one whose braces are nested (which
\* the catalog accepts: command_template is free text, models.py:57).
TwoPlaceholders == <<"?", "{", "a", "}", "{", "b", "}">>
SamePlaceholderTwice == <<"{", "a", "}", "/", "{", "a", "}">>
NestedBraces == <<"{", "{", "a", "}", "}">>
UrlTemplates ==
    {VolumeSetTemplate, PowerOnTemplate, TwoPlaceholders, SamePlaceholderTwice,
     NestedBraces}

\* Parameter names and values: a level as text and as an int, and text
\* with braces in it (an input source comes from the request path as it
\* is, api.py:382).
UrlKeys == {<<"a">>, <<"b">>, <<"l", "e", "v", "e", "l">>}
UrlValues ==
    {StrValue(<<"4", "0">>), IntValue(40), StrValue(<<"b">>),
     StrValue(<<"{", "b", "}">>), StrValue(<<"}">>)}

\* The mappings: empty, one item, and two items under the names a and b in
\* either order.
UrlParams ==
    {Mapping(<< >>)}
    \cup {Mapping(<<Item(k, v)>>) : k \in UrlKeys, v \in UrlValues}
    \cup {Mapping(<<Item(ks[1], v1), Item(ks[2], v2)>>) :
            ks \in {<< <<"a">>, <<"b">> >>, << <<"b">>, <<"a">> >>},
            v1 \in UrlValues, v2 \in UrlValues}

\* A caller runs _build_url.
BuildUrlCall(protocol, host, port, endpoint, command_template, parameters) ==
    /\ call' = [NoCall EXCEPT !.op = "_build_url", !.port = port,
                              !.command_template = command_template,
                              !.parameters = parameters,
                              !.url = BuildUrl(protocol, host, port, endpoint,
                                               command_template, parameters)]
    /\ UNCHANGED <<catalog, httpCount>>
    /\ UNCHANGED <<discVars, scanVars, device, mdns>>

NextUrl ==
    \E h \in Hosts, p \in PortArgs \ {None}, t \in UrlTemplates, q \in UrlParams :
        BuildUrlCall("http", h, p, "/goform/formiPhoneAppDirect.xml", t, q)

SpecUrl == Init /\ [][NextUrl]_vars

\* ------------------------------------------------- steps the claims name

\* Thread t's sighting commits in this step.
SightingCommits(t) ==
    /\ pc[t] = "pending" /\ loc[t].op = "add"
    /\ pc'[t] = "idle" /\ last'.op = "add" /\ last'.ok

\* Thread t's sweep runs its query in this step.
SweepQueries(t) == pc[t] = "idle" /\ pc'[t] = "swept"

\* Thread t's sweep commits in this step.
SweepCommits(t) ==
    /\ pc[t] = "swept"
    /\ pc'[t] = "idle" /\ last'.op = "sweep" /\ last'.ok

\* ------------------------------------------------------------ the claims

\* C1: the registry holds at most one record per IP address, whatever the
\* sequence and interleaving of sightings.
C1_OneRecordPerAddress ==
    \A i, j \in DOMAIN registry :
        registry[i].ip_address = registry[j].ip_address => i = j

\* C2: at no time are two sighting merges (existence check, insert or
\* update, commit) against the registry in progress together, whichever
\* thread or DiscoveryService instance issued them.
C2_MergesSerialized ==
    Cardinality({t \in Threads : pc[t] = "pending" /\ loc[t].op = "add"}) <= 1

\* C3: a staleness sweep and a sighting never interleave, so a sweep never
\* leaves a record inactive whose lastSeen is newer than the sweep's cutoff.
C3_SweepSerializedWithSighting ==
    [][\A t \in Callers :
          SweepCommits(t) =>
              \A i \in loc[t].stale :
                  ~(registry'[i].is_active = FALSE
                      /\ registry'[i].last_seen > loc[t].cutoff)]_vars

\* C4: when a sighting of address A completes successfully, A has a record
\* with active = true: A is in the active-only listing.
C4_SightingLeavesActive ==
    [][\A t \in Threads :
          SightingCommits(t) =>
              \E k \in DOMAIN get_discovered_receivers(registry', TRUE) :
                  get_discovered_receivers(registry', TRUE)[k].ip_address = loc[t].ip]_vars

\* C5: a re-sighting of a recorded address sets the record's lastSeen to a
\* value strictly greater than the one it had before the sighting.
C5_LastSeenStrictlyIncreases ==
    [][\A t \in Threads :
          (SightingCommits(t) /\ loc[t].existing # 0) =>
              registry'[loc[t].existing].last_seen
                  > registry[loc[t].existing].last_seen]_vars

\* C6: the sweep selects exactly the records that are active and whose
\* lastSeen is more than max_age_hours before the instant it read, and its
\* commit sets active = false on exactly those, changing no other record
\* and no other field.
C6_SweepDeactivatesExactlyStale ==
    [][\A t \in Callers :
          /\ SweepQueries(t) =>
                \E h \in 1..MaxAgeHours :
                    /\ loc'[t].cutoff = (now' - 1) - h
                    /\ loc'[t].stale =
                          {i \in DOMAIN registry :
                              /\ registry[i].is_active
                              /\ (now' - 1) - registry[i].last_seen > h}
          /\ SweepCommits(t) =>
                /\ DOMAIN registry' = DOMAIN registry
                /\ \A i \in DOMAIN registry :
                      IF i \in loc[t].stale
                      THEN /\ registry'[i].is_active = FALSE
                           /\ [registry'[i] EXCEPT !.is_active = registry[i].is_active]
                                  = registry[i]
                      ELSE registry'[i] = registry[i]]_vars

\* C6 witness: a sweep has committed that deactivated a record and left
\* another, active, one alone.
C6_Witness ==
    /\ last.op = "sweep" /\ last.ok
    /\ \E i \in last.ids : registry[i].is_active = FALSE
    /\ \E i \in DOMAIN registry : i \notin last.ids /\ registry[i].is_active

\* C7: records are never deleted: a record, once created, is there with
\* its address in every later state.
C7_NeverDeleted ==
    [][\A i \in DOMAIN registry :
          /\ i \in DOMAIN registry'
          /\ registry'[i].ip_address = registry[i].ip_address]_vars

\* C7 witness: every record of the full table has been expired by sweeps,
\* and all are still there.
C7_Witness ==
    /\ Len(registry) >= 2
    /\ \A i \in DOMAIN registry : registry[i].is_active = FALSE

\* The catalog has a receiver model of this name.
ModelKnown(cat, m) ==
    \E i \in DOMAIN cat.receivers : cat.receivers[i].model = m

\* The commands the catalog holds for (model, action name).
CommandsFor(cat, m, a) ==
    {cat.commands[j] : j \in
        {k \in DOMAIN cat.commands :
            /\ cat.commands[k].action_name = a
            /\ \E i \in DOMAIN cat.receivers :
                  /\ cat.receivers[i].model = m
                  /\ cat.receivers[i].id = cat.commands[k].receiver_id}}

CommandKnown(cat, m, a) == CommandsFor(cat, m, a) # {}

\* The call that returns in this step is an execute_command call whose
\* catalog queries did not raise.
Executes == call'.op = "execute_command" /\ call'.db_ok

\* C8: execute_command with a model name absent from the catalog, or an
\* action name absent for that model, returns False and issues no HTTP
\* request; get_available_commands for an unknown model returns the empty
\* list; neither changes the catalog or the registry.
C8_LookupFailuresReturned ==
    [][/\ (Executes /\ ~CommandKnown(catalog, call'.receiver_model, call'.action_name))
            => /\ call'.ret = FALSE
               /\ httpCount' = httpCount
               /\ catalog' = catalog /\ registry' = registry
       /\ (call'.op = "get_available_commands"
              /\ ~ModelKnown(catalog, call'.receiver_model))
            => /\ call'.commands = << >>
               /\ httpCount' = httpCount
               /\ catalog' = catalog /\ registry' = registry]_vars

\* C8 witness: after requests have been issued, a call naming an unknown
\* model, or a known model and an unknown action, has returned False.
C8_Witness ==
    /\ call.op = "execute_command" /\ call.db_ok
    /\ catalog # EmptyCatalog
    /\ ~CommandKnown(catalog, call.receiver_model, call.action_name)
    /\ call.net.status_code = 200
    /\ call.ret = FALSE
    /\ httpCount > 0

\* C9 as stated: a command whose method text is not one of GET, POST, PUT,
\* DELETE makes execute_command return False without a request.
C9_MethodOutsideSet ==
    [][\A c \in CommandsFor(catalog, call'.receiver_model, call'.action_name) :
          (Executes /\ c.http_method \notin {"GET", "POST", "PUT", "DELETE"})
              => (call'.ret = FALSE /\ httpCount' = httpCount)]_vars

\* C9 amended: a command whose method is missing, or whose method text in
\* upper case is not one of GET, POST, PUT, DELETE, makes execute_command
\* return False without a request.
C9_MethodOutsideSetIgnoringCase ==
    [][\A c \in CommandsFor(catalog, call'.receiver_model, call'.action_name) :
          (Executes /\ (c.http_method = None
                          \/ Upper(c.http_method) \notin {"GET", "POST", "PUT", "DELETE"}))
              => (call'.ret = FALSE /\ httpCount' = httpCount)]_vars

\* C9 witness: a PATCH command was executed against a receiver that would
\* have answered 200, and the call returned False.
C9_Witness ==
    /\ call.op = "execute_command" /\ call.db_ok
    /\ \E c \in CommandsFor(catalog, call.receiver_model, call.action_name) :
          c.http_method = "PATCH"
    /\ call.net.status_code = 200
    /\ call.ret = FALSE
    /\ call.requests = 0

\* C10: execute_command returns True exactly when the model and command
\* were found, the method is supported, the request (one was sent) met no
\* transport error and the status code is 200.
C10_TrueIffFoundSupportedAnd200 ==
    call.op = "execute_command" =>
        (call.ret = TRUE <=>
            /\ call.db_ok
            /\ call.requests = 1
            /\ \E c \in CommandsFor(catalog, call.receiver_model, call.action_name) :
                  /\ c.http_method # None
                  /\ Upper(c.http_method) \in {"GET", "POST", "PUT", "DELETE"}
            /\ call.net.kind = "response"
            /\ call.net.status_code = 200)

\* C10 witness: a call has returned True after its one request.
C10_Witness ==
    /\ call.op = "execute_command"
    /\ call.ret = TRUE
    /\ call.requests = 1

\* C11: execute_command never lets an exception escape: whether a catalog
\* query fails, the URL cannot be built, the transport fails or the method
\* is unsupported or missing, the call ends by returning a boolean.
C11_NoExceptionEscapes ==
    call.op = "execute_command" =>
        /\ call.raised = None
        /\ call.ret \in BOOLEAN

\* C11 witness: a call for a known command whose parameters argument is no
\* mapping (building the URL raises) has returned False.
C11_Witness ==
    /\ call.op = "execute_command" /\ call.db_ok
    /\ CommandKnown(catalog, call.receiver_model, call.action_name)
    /\ ~call.parameters.mapping
    /\ call.raised = None
    /\ call.ret = FALSE

\* Some character of the text is a brace.
HasBrace(text) == \E k \in DOMAIN text : text[k] \in {"{", "}"}

\* The placeholders of a template: the pairs of an opening brace and the
\* next closing brace with a name, free of braces, between them.
PlaceholderSpans(t) ==
    {sp \in (DOMAIN t) \X (DOMAIN t) :
        /\ sp[1] + 1 < sp[2]
        /\ t[sp[1]] = "{" /\ t[sp[2]] = "}"
        /\ \A k \in (sp[1] + 1)..(sp[2] - 1) : t[k] \notin {"{", "}"}}
PlaceholderNames(t) ==
    {SubSeq(t, sp[1] + 1, sp[2] - 1) : sp \in PlaceholderSpans(t)}

\* The template follows the grammar of command templates: literal text
\* without braces, interspersed with {name} placeholders.
IsTemplate(t) ==
    \A k \in DOMAIN t :
        t[k] \in {"{", "}"} => \E sp \in PlaceholderSpans(t) : k \in {sp[1], sp[2]}

KeysOf(parameters) == {parameters.items[k].key : k \in DOMAIN parameters.items}

\* No value of the mapping has a brace in its string form.
ValuesBraceFree(parameters) ==
    \A k \in DOMAIN parameters.items : ~HasBrace(StrOf(parameters.items[k].value))

\* C12 as stated: when every placeholder name of the template is a key of
\* the mapping, the assembled URL has no '{' and no '}', whatever the
\* values.
C12_NoBraceLeft ==
    (/\ call.op = "_build_url"
     /\ IsTemplate(call.command_template)
     /\ PlaceholderNames(call.command_template) \subseteq KeysOf(call.parameters))
        => ~HasBrace(call.url)

\* C12 amended: when every placeholder name of the template is a key of
\* the mapping and no value's string form contains a brace, the assembled
\* URL has no '{' and no '}'.
C12_NoBraceLeftForBraceFreeValues ==
    (/\ call.op = "_build_url"
     /\ IsTemplate(call.command_template)
     /\ PlaceholderNames(call.command_template) \subseteq KeysOf(call.parameters)
     /\ ValuesBraceFree(call.parameters))
        => ~HasBrace(call.url)

\* C12 witness: a template with placeholders, one of them twice or two of
\* them, was resolved with every name supplied and no brace is left.
C12_Witness ==
    /\ call.op = "_build_url"
    /\ call.command_template \in {TwoPlaceholders, SamePlaceholderTwice}
    /\ PlaceholderNames(call.command_template) \subseteq KeysOf(call.parameters)
    /\ ValuesBraceFree(call.parameters)
    /\ ~HasBrace(call.url)

\* The template with every occurrence of {key} in it replaced by the
\* string form of the key's value, for every key of the mapping.
RECURSIVE SubstituteFrom(_, _, _)
SubstituteFrom(t, items, i) ==
    IF i > Len(t) THEN << >>
    ELSE LET hits == {k \in DOMAIN items : MatchesAt(t, Placeholder(items[k].key), i)}
         IN  IF hits = {} THEN <<t[i]>> \o SubstituteFrom(t, items, i + 1)
             ELSE LET k == CHOOSE x \in hits : TRUE
                  IN  StrOf(items[k].value)
                          \o SubstituteFrom(t, items, i + Len(items[k].key) + 2)

Contains(text, piece) == \E i \in 1..Len(text) : MatchesAt(text, piece, i)

\* C14: a placeholder whose parameter is not in the mapping stays in the
\* resolved template as the literal text {name}, and the call does not
\* fail for it: the request is sent with that text in its URL and the
\* result is the one the response gives.
C14_OmittedPlaceholderPassedThrough ==
    (call.op = "execute_command" /\ call.db_ok /\ call.parameters.mapping) =>
        \A c \in CommandsFor(catalog, call.receiver_model, call.action_name) :
            \A name \in PlaceholderNames(c.command_template) \ KeysOf(call.parameters) :
                /\ Contains(SubSeq(call.url, 7, Len(call.url)), Placeholder(name))
                /\ (c.http_method # None
                      /\ Upper(c.http_method) \in {"GET", "POST", "PUT", "DELETE"})
                    => /\ call.requests = 1
                       /\ call.ret = (call.net.kind = "response"
                                        /\ call.net.status_code = 200)

\* C14 witness: volume_set was executed with no parameters; the request
\* went out with {level} in its URL and the call returned True.
C14_Witness ==
    /\ call.op = "execute_command"
    /\ call.action_name = "volume_set"
    /\ call.parameters = Mapping(<< >>)
    /\ Contains(call.url, Placeholder(<<"l", "e", "v", "e", "l">>))
    /\ call.requests = 1
    /\ call.ret = TRUE

\* The network outcome is a response with status 200.
Answered200(net) == net.kind = "response" /\ net.status_code = 200

\* C15: nothing is retried: a call of execute_command, a probe of an
\* address, an identification and a status query each issue at most one
\* HTTP request, and when that request fails the call has failed:
\* execute_command returns False, the probe returns False, the
\* identification returns no model and the status is the default one.
C15_NoRetry ==
    [][call'.op \in {"execute_command", "_probe_http_device", "_identify_receiver",
                     "get_status"} =>
          /\ httpCount' - httpCount <= 1
          /\ call'.requests = httpCount' - httpCount
          /\ (call'.op = "execute_command" /\ ~Answered200(call'.net))
                => call'.ret = FALSE
          /\ (call'.op = "_probe_http_device" /\ call'.net.kind # "response")
                => call'.ret = FALSE
          /\ (call'.op = "_identify_receiver" /\ ~Answered200(call'.page))
                => call'.rid = None
          /\ (call'.op = "get_status" /\ ~Answered200(call'.net))
                => call'.status = DefaultStatus]_vars

\* C15 witness: a command's request timed out; the call returned False and
\* that one request is all that was sent.
C15_Witness ==
    /\ call.op = "execute_command"
    /\ call.net.kind = "Timeout"
    /\ call.requests = 1
    /\ httpCount = 1
    /\ call.ret = FALSE


\* The network ip_network() resolves the subnet of the last scan to.
ResolvedNetwork == IpNetwork(scan.subnet.addr, scan.subnet.prefix)
\* A scan has run to its end on a subnet that names a network.
Scanned == scan.op = "scan_network_range" /\ scan.ok
\* The /24 an address lies in, as the number of its first three octets.
Slash24(a) == a \div 256

\* C16: a scan never probes more than 256 addresses, and when the resolved
\* network has more than 256 addresses every address it probes is a host
\* address (last octet 1..254) of the /24 that contains the network address.
C16_OversizedRangeClamped ==
    Scanned =>
        /\ Cardinality(scan.probed) <= 256
        /\ ResolvedNetwork.num_addresses > 256 =>
              \A a \in scan.probed :
                  /\ Slash24(a) = Slash24(ResolvedNetwork.network_address)
                  /\ a % 256 \in 1..254
\* 10.0.1.0/23 was scanned: 254 addresses were probed, and the device at
\* 10.0.1.1, which is in the /23 and would have answered, was not.
C16_Witness ==
    /\ Scanned
    /\ scan.subnet = Subnet(Net10 + 256, 23)
    /\ Cardinality(scan.probed) = 254
    /\ ProbeHttpDevice(BehaviourAt(world, Net10 + 257).probe).ret
    /\ Net10 + 257 \notin scan.probed


\* This step is a scan that ran to its end on a subnet that names a network.
ScanRuns == scan'.op = "scan_network_range" /\ scan'.ok /\ now' >= now
\* The step recorded a sighting of address a: its row carries a time read
\* from the clock in this step.
SightingRecorded(a) ==
    LET e == FindByAddress(registry', IpStr(a))
    IN  e # 0 /\ registry'[e].last_seen >= now
\* The device at address a answers a probe with one of the five status codes.
AnswersProbe(a) ==
    /\ BehaviourAt(world, a).probe.kind = "response"
    /\ BehaviourAt(world, a).probe.status_code \in {200, 301, 302, 401, 403}

CatalogReceivers(model_text) ==
    {i \in DOMAIN catalog.receivers :
        /\ catalog.receivers[i].manufacturer = "Denon"
        /\ catalog.receivers[i].model = Upper(Lower(model_text))}
IdentificationSucceeds(a) ==
    LET page == BehaviourAt(world, a).page
    IN  /\ page.kind = "response" /\ page.status_code = 200
        /\ Lower(page.maker_text) = "denon"
        /\ page.model_text # None
        /\ CatalogReceivers(page.model_text) # {}
\* The entries of the full listing after the step that show row i.
ListedAs(i) ==
    LET listing == get_discovered_receivers(registry', FALSE)
    IN  {listing[k] : k \in {j \in DOMAIN listing : listing[j].id = i}}

C18_ResightingKeepsHostnameAndMac ==
    [][\A t \in Threads :
          (/\ SightingCommits(t)
           /\ loc[t].existing # 0
           /\ loc[t].sighting.hostname = None) =>
              /\ registry'[loc[t].existing].hostname = registry[loc[t].existing].hostname
              /\ registry'[loc[t].existing].mac_address
                    = registry[loc[t].existing].mac_address]_vars
\* A sighting without hostname has just been merged into a row that mDNS
\* created with hostname avr.local, and the hostname is still there.
C18_Witness ==
    /\ last.op = "add" /\ last.ok /\ last.hostname = None
    /\ \E i \in last.ids :
          /\ registry[i].hostname = "avr.local"
          /\ registry[i].discovery_method = "mdns"


\* This step is a call of get_discovered_receivers.
ListReturns ==
    /\ last'.op = "list"
    /\ UNCHANGED <<registry, now, lock, pc, loc>>

C20_NewestFirst ==
    /\ last.op = "list" /\ last.active_only
    /\ Len(last.result) = 2
    /\ last.result[1].id > last.result[2].id
    /\ last.result[1].last_seen > last.result[2].last_seen
StatusAnswered200 == call.net.kind = "response" /\ call.net.status_code = 200

\* C23: get_status returns a status dict that is neither None nor empty,
\* and when the request got no 200 response (another status, a timeout, a
\* connection error) or a body that is not well-formed XML, the dict is the
\* default status.
C23_DefaultStatusOnFailure ==
    call.op = "get_status" =>
        /\ call.status # NoStatus
        /\ call.status.keys # {}
        /\ (~StatusAnswered200 \/ ~call.body.well_formed) =>
              /\ call.status.keys = {"power", "volume", "mute", "input", "connection"}
              /\ call.status.power = "UNKNOWN"
              /\ call.status.volume = -40
              /\ call.status.mute = FALSE
              /\ call.status.input = "--"
              /\ call.status.connection = "Disconnected"
\* A Denon receiver answered 200 with a body that is not XML, and the
\* caller got the defaults.
C23_Witness ==
    /\ call.op = "get_status"
    /\ NamesDenon(call.receiver_model)
    /\ call.requests = 1
    /\ StatusAnswered200 /\ ~call.body.well_formed
    /\ call.status = DefaultStatus

\* C24: when the status request of a Denon receiver is answered 200 with
\* well-formed XML whose MasterVolume text is '--', empty or not a number,
\* the status returned has volume -40 and every other field the body holds.
C24_SentinelVolumeKeepsOtherFields ==
    (/\ call.op = "get_status" /\ NamesDenon(call.receiver_model)
     /\ StatusAnswered200 /\ call.body.well_formed
     /\ call.body.MasterVolume \in {"--", Empty, "abc"}) =>
        /\ "volume" \in call.status.keys /\ call.status.volume = -40
        /\ call.body.Power # Absent =>
              "power" \in call.status.keys /\ call.status.power = call.body.Power
        /\ call.body.Mute # Absent => "mute" \in call.status.keys
        /\ call.body.InputFuncSelect # Absent =>
              "input" \in call.status.keys
                  /\ call.status.input = call.body.InputFuncSelect

\* C30: for a 200 response with well-formed XML, whatever elements are
\* there, absent or empty, get_status returns connection 'Connected' and
\* the fields the body holds.
C30_ConnectedOnWellFormed200 ==
    (/\ call.op = "get_status" /\ NamesDenon(call.receiver_model)
     /\ StatusAnswered200 /\ call.body.well_formed) =>
        /\ call.status.connection = "Connected"
        /\ call.body.Power # Absent =>
              "power" \in call.status.keys /\ call.status.power = call.body.Power
        /\ call.body.MasterVolume # Absent => "volume" \in call.status.keys
        /\ call.body.InputFuncSelect # Absent =>
              "input" \in call.status.keys
                  /\ call.status.input = call.body.InputFuncSelect


\* The items of a mapping in the opposite iteration order.
ReverseItems(items) == [k \in DOMAIN items |-> items[Len(items) + 1 - k]]

\* C29: the resolved template is the same whichever order the items of the
\* mapping are substituted in, and equals the template with all supplied
\* placeholders replaced at once.
C29_OrderIndependent ==
    (call.op = "_build_url" /\ IsTemplate(call.command_template)) =>
        LET resolved == SubSeq(call.url, 7, Len(call.url))
        IN  /\ ResolveTemplate(call.command_template,
                               ReverseItems(call.parameters.items)) = resolved
            /\ SubstituteFrom(call.command_template, call.parameters.items, 1)
                  = resolved


\* Thread t's merge of a sighting ends in this step with a failed commit.
SightingFails(t) ==
    /\ pc[t] = "pending" /\ loc[t].op = "add"
    /\ pc'[t] = "idle" /\ last'.op = "add" /\ ~last'.ok
\* Thread t's sweep ends in this step with a failed commit.
SweepFails(t) ==
    /\ pc[t] = "swept"
    /\ pc'[t] = "idle" /\ last'.op = "sweep" /\ ~last'.ok

C28_ResightingFrame ==
    [][\A t \in Threads :
          (SightingCommits(t) /\ loc[t].existing # 0) =>
              /\ DOMAIN registry' = DOMAIN registry
              /\ \A i \in DOMAIN registry :
                    IF i = loc[t].existing
                    THEN [registry'[i] EXCEPT !.last_seen = registry[i].last_seen,
                                              !.is_active = registry[i].is_active]
                             = registry[i]
                    ELSE registry'[i] = registry[i]
      ]_vars
\* An HTTP-probe sighting has just been merged into the row mDNS created
\* unidentified for 10.0.0.1: it is still an mdns row without a model
\* reference, under the name mDNS gave it.
C28_Witness ==
    /\ last.op = "add" /\ last.ok /\ last.hostname = None
    /\ \E i \in last.ids :
          /\ registry[i].ip_address = "10.0.0.1"
          /\ registry[i].discovery_method = "mdns"
          /\ registry[i].receiver_id = None
          /\ registry[i].friendly_name = "avr.local"
          /\ registry[i].last_seen > 0


\* C27: a thread that is inside add_discovered_device eventually is out of
\* it, whether its commit succeeds or fails, and a lock that is held is
\* eventually free, so that the next sighting on the service can take it.
C27_LockReleasedOnEveryPath ==
    /\ \A t \in Threads : (pc[t] = "pending") ~> (pc[t] = "idle")
    /\ \A s \in Services : (lock[s] # None) ~> (lock[s] = None)
\* A merge has ended with a failed commit, and a later sighting has taken a
\* service's lock.
C27_Witness ==
    /\ last.op = "add" /\ ~last.ok
    /\ \E t \in Threads : pc[t] = "pending" /\ lock[ServiceOf(t)] = t

\* =========================================================== seed scripts
\* The scripts of src/scripts that write the command catalog. Each is one
\* run with its own session: its lookups, its additions and updates, and
\* one commit; a failing commit is rolled back and leaves the catalog as
\* it was.

\* f'input_{source_id.lower().replace("/", "_")}' (seed_database.py:198) for
\* the source ids of lines 157-169.
InputActionName(source_id) ==
    CASE source_id = "CD" -> "input_cd"
      [] source_id = "DVD" -> "input_dvd"
      [] source_id = "BD" -> "input_bd"
      [] source_id = "TV" -> "input_tv"
      [] source_id = "SAT/CBL" -> "input_sat_cbl"
      [] source_id = "MPLAY" -> "input_mplay"
      [] source_id = "GAME" -> "input_game"
      [] source_id = "TUNER" -> "input_tuner"
      [] source_id = "AUX1" -> "input_aux1"
      [] source_id = "NET" -> "input_net"
      [] source_id = "BT" -> "input_bt"

\* input_sources (seed_database.py:157-169), the source ids in order.
InputSources == << "CD", "DVD", "BD", "TV", "SAT/CBL", "MPLAY", "GAME", "TUNER", "AUX1", "NET", "BT" >>

\* f'?SI{source_id}' (seed_database.py:201), character by character.
InputTemplate(source_id) ==
    CASE source_id = "CD" -> <<"?", "S", "I", "C", "D">>
      [] source_id = "DVD" -> <<"?", "S", "I", "D", "V", "D">>
      [] source_id = "BD" -> <<"?", "S", "I", "B", "D">>
      [] source_id = "TV" -> <<"?", "S", "I", "T", "V">>
      [] source_id = "SAT/CBL" -> <<"?", "S", "I", "S", "A", "T", "/", "C", "B", "L">>
      [] source_id = "MPLAY" -> <<"?", "S", "I", "M", "P", "L", "A", "Y">>
      [] source_id = "GAME" -> <<"?", "S", "I", "G", "A", "M", "E">>
      [] source_id = "TUNER" -> <<"?", "S", "I", "T", "U", "N", "E", "R">>
      [] source_id = "AUX1" -> <<"?", "S", "I", "A", "U", "X", "1">>
      [] source_id = "NET" -> <<"?", "S", "I", "N", "E", "T">>
      [] source_id = "BT" -> <<"?", "S", "I", "B", "T">>

\* The power commands of seed_denon_x2300w (seed_database.py:52-73).
SeedPowerCommands ==
    << Cmd("power", "power_on", "/MainZone/index.put.asp", "GET", <<"?", "c", "m", "d", "0", "=", "P", "u", "t", "Z", "o", "n", "e", "_", "O", "n", "O", "f", "f", "/", "O", "N">>),
       Cmd("power", "power_off", "/MainZone/index.put.asp", "GET", <<"?", "c", "m", "d", "0", "=", "P", "u", "t", "Z", "o", "n", "e", "_", "O", "n", "O", "f", "f", "/", "O", "F", "F">>) >>

\* The volume commands of seed_denon_x2300w (seed_database.py:75-107).
SeedVolumeCommands ==
    << Cmd("volume", "volume_up", "/goform/formiPhoneAppDirect.xml", "GET", <<"?", "M", "V", "U", "P">>),
       Cmd("volume", "volume_down", "/goform/formiPhoneAppDirect.xml", "GET", <<"?", "M", "V", "D", "O", "W", "N">>),
       Cmd("volume", "volume_set", "/goform/formiPhoneAppDirect.xml", "GET", <<"?", "M", "V", "{", "l", "e", "v", "e", "l", "}">>) >>

\* mute_on and mute_off of seed_denon_x2300w (seed_database.py:122-142).
SeedMuteCommands ==
    << Cmd("mute", "mute_on", "/MainZone/index.put.asp", "GET", <<"?", "c", "m", "d", "0", "=", "P", "u", "t", "V", "o", "l", "u", "m", "e", "M", "u", "t", "e", "/", "o", "n">>),
       Cmd("mute", "mute_off", "/MainZone/index.put.asp", "GET", <<"?", "c", "m", "d", "0", "=", "P", "u", "t", "V", "o", "l", "u", "m", "e", "M", "u", "t", "e", "/", "o", "f", "f">>) >>

\* mute_toggle as the seed, add_missing_commands and migrate_all add it.
MuteToggleCommand ==
    Cmd("mute", "mute_toggle", "/goform/formiPhoneAppDirect.xml", "GET", <<"?", "M", "U", "O", "N">>)

\* change_input as the seed, add_missing_commands and migrate_all add it.
ChangeInputCommand ==
    Cmd("input", "change_input", "/goform/formiPhoneAppDirect.xml", "GET", <<"?", "S", "I", "{", "i", "n", "p", "u", "t", "_", "s", "o", "u", "r", "c", "e", "}">>)

\* set_sound_mode as add_sound_settings_commands and migrate_all add it.
SetSoundModeCommand ==
    Cmd("sound", "set_sound_mode", "/goform/formiPhoneAppDirect.xml", "GET", <<"?", "M", "S", "{", "m", "o", "d", "e", "}">>)

\* settings_commands (migrate_all_commands.py:92-97), the same rows in the
\* same order as add_sound_settings_commands.py:60-111.
SettingsCommands ==
    << Cmd("setting", "toggle_dynamicEq", "/goform/formiPhoneAppDirect.xml", "GET", <<"?", "P", "S", "D", "Y", "N", "E", "Q", " ", "T", "O", "G", "G", "L", "E">>),
       Cmd("setting", "toggle_dynamicVol", "/goform/formiPhoneAppDirect.xml", "GET", <<"?", "P", "S", "D", "Y", "N", "V", "O", "L", " ", "T", "O", "G", "G", "L", "E">>),
       Cmd("setting", "toggle_ecoMode", "/goform/formiPhoneAppDirect.xml", "GET", <<"?", "E", "C", "O", " ", "T", "O", "G", "G", "L", "E">>),
       Cmd("setting", "toggle_sleepTimer", "/goform/formiPhoneAppDirect.xml", "GET", <<"?", "S", "L", "P", "O", "F", "F">>) >>

\* The rows of commands, in order, given to the receiver with this id
\* (receiver_id=receiver.id in every Command(...) of the scripts).
ForReceiver(commands, receiver_id) ==
    [i \in DOMAIN commands |-> [commands[i] EXCEPT !.receiver_id = receiver_id]]

\* The eleven input_* rows of the loop at seed_database.py:194-204.
InputCommands ==
    [i \in DOMAIN InputSources |->
        Cmd("input", InputActionName(InputSources[i]),
            "/goform/formiPhoneAppDirect.xml", "GET", InputTemplate(InputSources[i]))]

\* Every command seed_denon_x2300w adds, in the order of its session.add
\* calls (seed_database.py:52-204).
SeedScriptCommands ==
    SeedPowerCommands \o SeedVolumeCommands \o SeedMuteCommands
        \o <<MuteToggleCommand, ChangeInputCommand>> \o InputCommands

\* A database seeded before mute_toggle and change_input were part of the
\* seed and before the volume commands used the modern endpoint: the
\* database add_missing_commands.py, update_volume_commands.py and
\* migrate_all_commands.py are written for. Of its volume rows the scripts
\* read only that the endpoint is not the modern one.
EarlierCatalog ==
    [receivers |-> SeedReceivers,
     commands |-> SeedPowerCommands
        \o [i \in DOMAIN SeedVolumeCommands |->
              [SeedVolumeCommands[i] EXCEPT !.endpoint = "/MainZone/index.put.asp",
                                            !.command_template =
                  <<"?", "c", "m", "d", "0", "=", "P", "u", "t", "M", "a", "s", "t", "e", "r",
                    "V", "o", "l", "u", "m", "e", "B", "t", "n", "/", ">">>]]
        \o SeedMuteCommands \o InputCommands]

\* Mutant of AddIfMissing: the row is added without the lookup.
AddIfMissing_Always(commands, cmd) ==
    Append(commands, cmd)

\* if not session.query(Command).filter_by(receiver_id=receiver.id,
\* action_name=...).first(): session.add(Command(...))
\* (add_missing_commands.py:27-46, migrate_all_commands.py:31-42 and 100-110).
AddIfMissing(commands, cmd) ==
    IF \E i \in DOMAIN commands : /\ commands[i].receiver_id = cmd.receiver_id
                                  /\ commands[i].action_name = cmd.action_name
    THEN commands
    ELSE Append(commands, cmd)

\* The lookups and additions of a script, one row after the other.
RECURSIVE AddAllMissing(_, _)
AddAllMissing(commands, cmds) ==
    IF cmds = << >> THEN commands
    ELSE AddAllMissing(AddIfMissing(commands, Head(cmds)), Tail(cmds))

\* cmd = query(...).first(); if cmd [and its endpoint differs]: set the
\* endpoint and the template (migrate_all_commands.py:113-129,
\* update_volume_commands.py:28-59, fix_toggle_commands.py:33-61). Only
\* the first row with the name is the one first() returns.
UpdateCommand(cat, receiver_id, action_name, endpoint, command_template, only_if_differs) ==
    LET i == FindCommand(cat, receiver_id, action_name)
    IN  IF i = 0 THEN cat
        ELSE IF only_if_differs /\ cat.commands[i].endpoint = endpoint THEN cat
        ELSE [cat EXCEPT !.commands[i].endpoint = endpoint,
                         !.commands[i].command_template = command_template]

\* The three volume rows brought to the modern endpoint.
UpdateVolumeRows(cat, receiver_id, only_if_differs) ==
    LET vu == UpdateCommand(cat, receiver_id, "volume_up",
                            SeedVolumeCommands[1].endpoint,
                            SeedVolumeCommands[1].command_template, only_if_differs)
        vd == UpdateCommand(vu, receiver_id, "volume_down",
                            SeedVolumeCommands[2].endpoint,
                            SeedVolumeCommands[2].command_template, only_if_differs)
    IN  UpdateCommand(vd, receiver_id, "volume_set",
                      SeedVolumeCommands[3].endpoint,
                      SeedVolumeCommands[3].command_template, only_if_differs)

\* seed_denon_x2300w (seed_database.py:21-209): nothing when the Denon
\* AVR-X2300W row exists; otherwise the receiver and all its commands.
SeedDenonX2300w(cat) ==
    IF FindReceiverByMakerAndModel(cat, "Denon", "AVR-X2300W") # 0 THEN cat
    ELSE [receivers |-> cat.receivers \o SeedReceivers,
          commands |-> cat.commands
                          \o ForReceiver(SeedScriptCommands, SeedReceivers[1].id)]

\* add_missing_commands (add_missing_commands.py:16-90).
AddMissingCommands(cat) ==
    LET r == FindReceiver(cat, "AVR-X2300W")
    IN  IF r = 0 THEN cat
        ELSE [cat EXCEPT !.commands =
                AddAllMissing(@, ForReceiver(<<MuteToggleCommand, ChangeInputCommand>>,
                                             cat.receivers[r].id))]

\* add_commands (add_sound_settings_commands.py:17-120).
AddSoundSettingsCommands(cat) ==
    LET r == FindReceiver(cat, "AVR-X2300W")
    IN  IF r = 0 THEN cat
        ELSE [cat EXCEPT !.commands =
                AddAllMissing(@, ForReceiver(<<SetSoundModeCommand>> \o SettingsCommands,
                                             cat.receivers[r].id))]

\* migrate_all (migrate_all_commands.py:17-157): the additions of the two
\* scripts above, then the volume rows whose endpoint is not the modern one.
MigrateAll(cat) ==
    LET r == FindReceiver(cat, "AVR-X2300W")
    IN  IF r = 0 THEN cat
        ELSE UpdateVolumeRows(
                [cat EXCEPT !.commands =
                    AddAllMissing(@, ForReceiver(
                        <<MuteToggleCommand, ChangeInputCommand, SetSoundModeCommand>>
                            \o SettingsCommands, cat.receivers[r].id))],
                cat.receivers[r].id, TRUE)

\* update_commands (update_volume_commands.py:17-75): the volume rows are
\* set whatever they hold.
UpdateVolumeCommands(cat) ==
    LET r == FindReceiver(cat, "AVR-X2300W")
    IN  IF r = 0 THEN cat ELSE UpdateVolumeRows(cat, cat.receivers[r].id, FALSE)

\* fix_commands (fix_toggle_commands.py:17-72): mute_toggle sends MUOFF,
\* toggle_ecoMode moves to the MainZone endpoint.
FixToggleCommands(cat) ==
    LET r == FindReceiver(cat, "AVR-X2300W")
    IN  IF r = 0 THEN cat
        ELSE UpdateCommand(
                UpdateCommand(cat, cat.receivers[r].id, "mute_toggle",
                              "/goform/formiPhoneAppDirect.xml",
                              <<"?", "M", "U", "O", "F", "F">>, FALSE),
                cat.receivers[r].id, "toggle_ecoMode", "/MainZone/index.put.asp",
                <<"?", "c", "m", "d", "0", "=", "P", "u", "t", "Z", "o", "n", "e", "_",
                  "E", "c", "o", "M", "o", "d", "e", "/", "T", "o", "g", "g", "l", "e">>,
                FALSE)

\* The scripts by name.
Scripts ==
    {"seed_database", "add_missing_commands", "add_sound_settings_commands",
     "migrate_all_commands", "update_volume_commands", "fix_toggle_commands"}

ScriptResult(script, cat) ==
    CASE script = "seed_database" -> SeedDenonX2300w(cat)
      [] script = "add_missing_commands" -> AddMissingCommands(cat)
      [] script = "add_sound_settings_commands" -> AddSoundSettingsCommands(cat)
      [] script = "migrate_all_commands" -> MigrateAll(cat)
      [] script = "update_volume_commands" -> UpdateVolumeCommands(cat)
      [] script = "fix_toggle_commands" -> FixToggleCommands(cat)

\* Whether a run of the script on this catalog reaches session.commit():
\* the seed returns before it when the receiver exists
\* (seed_database.py:36-38), the other scripts when it does not
\* (add_missing_commands.py:22-25, migrate_all_commands.py:24-27).
ReachesCommit(script, cat) ==
    IF script = "seed_database"
    THEN FindReceiverByMakerAndModel(cat, "Denon", "AVR-X2300W") = 0
    ELSE FindReceiver(cat, "AVR-X2300W") # 0

\* One run of a script, from opening its session to closing it. db_ok is
\* whether session.commit() succeeds; when it raises, the except branch
\* rolls the session back (seed_database.py:258-261,
\* add_missing_commands.py:84-86, migrate_all_commands.py:147-150) and the
\* catalog is as before the run. applied collects the scripts whose
\* changes have been committed, added counts the rows this run added.
RunScript(script, db_ok) ==
    LET commits == ReachesCommit(script, catalog)
        after == IF commits /\ db_ok THEN ScriptResult(script, catalog) ELSE catalog
    IN  /\ catalog' = after
        /\ call' = [NoCall EXCEPT !.op = script, !.db_ok = db_ok \/ ~commits,
                                  !.ret = commits /\ db_ok,
                                  !.added = Len(after.commands) - Len(catalog.commands),
                                  !.applied = IF commits /\ db_ok
                                              THEN call.applied \cup {script}
                                              ELSE call.applied]
        /\ UNCHANGED httpCount
        /\ UNCHANGED <<discVars, scanVars, device, mdns>>

\* The databases the scripts are run on first: a fresh one (init_db
\* creates empty tables) and one seeded by an earlier version.
InitSeed ==
    /\ registry = << >>
    /\ now = 0
    /\ lock = [s \in Services |-> None]
    /\ pc = [t \in Threads |-> "idle"]
    /\ loc = [t \in Threads |-> NoLoc]
    /\ last = NoLast
    /\ catalog \in {EmptyCatalog, EarlierCatalog}
    /\ httpCount = 0
    /\ call = NoCall
    /\ world = QuietWorld
    /\ scan = NoScan
    /\ device = QuietDevice
    /\ mdns = NoMdns

NextSeed ==
    \E script \in Scripts, db_ok \in BOOLEAN : RunScript(script, db_ok)

SpecSeed == InitSeed /\ [][NextSeed]_vars

\* ---------------------------------------------------------------- C26

\* No two rows of the command table carry the same receiver and action name.
ActionNamesUnique(cat) ==
    \A i, j \in DOMAIN cat.commands :
        (/\ cat.commands[i].receiver_id = cat.commands[j].receiver_id
         /\ cat.commands[i].action_name = cat.commands[j].action_name) => i = j

\* A script is run in this step.
ScriptRuns(script) ==
    call'.op = script /\ call' # call

\* C26: whatever scripts of seed_database, add_missing_commands,
\* add_sound_settings_commands and migrate_all_commands (and the two update
\* scripts) have run, in whatever order and however often, committed or
\* rolled back, no receiver has two commands with the same action name
\* after a run; and a run of a script that has committed before adds no row.
C26_ActionNamesStayUnique ==
    [][\A script \in Scripts :
          ScriptRuns(script) =>
              /\ ActionNamesUnique(catalog')
              /\ script \in call.applied => Len(catalog'.commands) = Len(catalog.commands)]_vars

\* migrate_all has committed on the earlier database, adding rows, and a
\* later run of a script that had committed adds none.
C26_Witness ==
    /\ "migrate_all_commands" \in call.applied
    /\ "add_missing_commands" \in call.applied
    /\ call.op = "add_sound_settings_commands" /\ call.db_ok /\ call.added = 0
    /\ Len(catalog.commands) = Len(EarlierCatalog.commands) + 7
    /\ ActionNamesUnique(catalog)

\* ============================================================ mute_toggle

\* The URL (mute_toggle.py:33-36), in its pieces.
MuteUrl(host, port) ==
    IF port = "80"
    THEN <<"http://", host, "/MainZone/index.put.asp">>
    ELSE <<"http://", host, ":", port, "/MainZone/index.put.asp">>

\* params["cmd0"] (mute_toggle.py:40-51): the branch of None sets the same
\* command as the branch of True.
MuteParams(mute) ==
    IF mute = "None" THEN "PutVolumeMute/on"
    ELSE IF mute = "True" THEN "PutVolumeMute/on"
    ELSE "PutVolumeMute/off"

\* mute_toggle (mute_toggle.py:16-84): one GET; True for status 200, False
\* for every other status and for every exception.
MuteToggle(host, port, mute, net) ==
    [url |-> MuteUrl(host, port), cmd0 |-> MuteParams(mute),
     ret |-> net.kind = "response" /\ net.status_code = 200, requests |-> 1]

\* What the receiver does with a command it accepts.
DeviceReacts(dev, cmd0) ==
    IF cmd0 = "PutVolumeMute/off" THEN [dev EXCEPT !.muted = FALSE]
    ELSE IF dev.on_toggles THEN [dev EXCEPT !.muted = ~dev.muted]
    ELSE [dev EXCEPT !.muted = TRUE]

\* A caller calls mute_toggle. The receiver acts on the request it answers
\* with 200; a request that timed out may or may not have reached it.
MuteToggleCall(host, port, mute, net, reached) ==
    LET r == MuteToggle(host, port, mute, net)
        acts == r.ret \/ (net.kind = "Timeout" /\ reached)
    IN  /\ httpCount + r.requests <= MaxRequests
        /\ httpCount' = httpCount + r.requests
        /\ device' = IF acts THEN DeviceReacts(device, r.cmd0) ELSE device
        /\ call' = [NoCall EXCEPT !.op = "mute_toggle", !.port = port, !.mute = mute,
                                  !.net = net, !.ret = r.ret, !.requests = r.requests,
                                  !.url = r.url, !.muted = device.muted]
        /\ UNCHANGED catalog
        /\ UNCHANGED <<discVars, scanVars, mdns>>

InitMute ==
    /\ registry = << >>
    /\ now = 0
    /\ lock = [s \in Services |-> None]
    /\ pc = [t \in Threads |-> "idle"]
    /\ loc = [t \in Threads |-> NoLoc]
    /\ last = NoLast
    /\ catalog = SeedCatalog
    /\ httpCount = 0
    /\ call = NoCall
    /\ world = QuietWorld
    /\ scan = NoScan
    /\ device \in {Device(m, g) : m, g \in BOOLEAN}
    /\ mdns = NoMdns

\* The callers' arguments: the default port and another one; mute is None,
\* True or False, by name.
NextMute ==
    \E h \in Hosts, p \in {"80", "8080"}, m \in {"None", "True", "False"} :
        \E net \in NetOutcomes, reached \in BOOLEAN : MuteToggleCall(h, p, m, net, reached)

SpecMute == InitMute /\ [][NextMute]_vars

\* ---------------------------------------------------------------- C25

\* mute_toggle is called with mute=None in this step and returns True.
MuteNoneSucceeds ==
    /\ httpCount' = httpCount + 1
    /\ call'.op = "mute_toggle" /\ call'.mute = "None" /\ call'.ret

\* C25: a successful call of mute_toggle with mute=None leaves the receiver
\* muted when it was unmuted and unmuted when it was muted, and the second
\* of two consecutive such calls leaves it in the state it had before the
\* first.
C25_NoneToggles ==
    [][MuteNoneSucceeds =>
          /\ device'.muted = ~device.muted
          /\ (call.op = "mute_toggle" /\ call.mute = "None" /\ call.ret)
                 => device'.muted = call.muted]_vars

\* ========================================================= mDNS discovery

\* len(service_types), discovery.py:109-114.
ServiceTypes == 4

\* Mutant of CloseOnError: the except branch does not close.
CloseOnError_Skip(zeroconf) == zeroconf

\* if self.zeroconf: self.zeroconf.close() (discovery.py:130-131); closing
\* a closed Zeroconf does nothing.
CloseOnError(zeroconf) ==
    IF zeroconf = None THEN None ELSE "closed"

\* start_mdns_discovery is called (line 95).
MdnsStart(duration) ==
    /\ mdns.pc = "idle" /\ mdns.runs < MaxRuns
    /\ mdns' = [mdns EXCEPT !.pc = "zeroconf", !.duration = duration, !.elapsed = 0,
                            !.browsers = 0, !.error = FALSE]
    /\ UNCHANGED <<discVars, execVars, scanVars, device>>

\* self.zeroconf = Zeroconf() (line 105): the listener's sockets open, or
\* the constructor raises and self.zeroconf keeps what it held.
MdnsZeroconf(ok) ==
    /\ mdns.pc = "zeroconf"
    /\ mdns' = IF ok THEN [mdns EXCEPT !.pc = "browsers", !.zeroconf = "open"]
               ELSE [mdns EXCEPT !.pc = "except"]
    /\ UNCHANGED <<discVars, execVars, scanVars, device>>

\* One turn of the loop of lines 117-119: a ServiceBrowser is created, or
\* its constructor raises.
MdnsBrowser(ok) ==
    /\ mdns.pc = "browsers"
    /\ mdns' = IF ~ok THEN [mdns EXCEPT !.pc = "except"]
               ELSE [mdns EXCEPT !.browsers = @ + 1,
                                 !.pc = IF mdns.browsers + 1 = ServiceTypes
                                        THEN "sleep" ELSE "browsers"]
    /\ UNCHANGED <<discVars, execVars, scanVars, device>>

\* time.sleep(duration) (line 122): a second goes by; a negative duration
\* raises at once.
MdnsSleep ==
    /\ mdns.pc = "sleep"
    /\ \/ /\ mdns.duration < 0
          /\ mdns' = [mdns EXCEPT !.pc = "except"]
       \/ /\ mdns.elapsed < mdns.duration
          /\ mdns' = [mdns EXCEPT !.elapsed = @ + 1]
    /\ UNCHANGED <<discVars, execVars, scanVars, device>>

\* The sleep is over: self.zeroconf.close() (line 125) and the call returns.
MdnsClose ==
    /\ mdns.pc = "sleep"
    /\ mdns.duration >= 0 /\ mdns.elapsed = mdns.duration
    /\ mdns' = [mdns EXCEPT !.pc = "idle", !.zeroconf = "closed", !.runs = @ + 1]
    /\ UNCHANGED <<discVars, execVars, scanVars, device>>

\* The except branch (lines 128-131): the error is logged, the listener is
\* closed if there is one, and the call returns.
MdnsExcept ==
    /\ mdns.pc = "except"
    /\ mdns' = [mdns EXCEPT !.pc = "idle", !.zeroconf = CloseOnError(mdns.zeroconf),
                            !.error = TRUE, !.runs = @ + 1]
    /\ UNCHANGED <<discVars, execVars, scanVars, device>>

\* An advertisement arrives while a browser listens: add_service
\* (discovery.py:40-66) hands the address to add_discovered_device.
Advertisement(t, ip, rid) ==
    /\ mdns.zeroconf = "open" /\ mdns.browsers > 0
    /\ AddBegin(t, ip, [discovery_method |-> "mdns", port |-> 80, hostname |-> "avr.local"],
                rid, now)

\* The steps of a running call.
MdnsStep ==
    \/ \E ok \in BOOLEAN : MdnsZeroconf(ok)
    \/ \E ok \in BOOLEAN : MdnsBrowser(ok)
    \/ MdnsSleep
    \/ MdnsClose
    \/ MdnsExcept

\* The durations callers pass (api.py:155 hands over whatever the request
\* holds): none, two seconds, and a negative one, for which time.sleep
\* raises ValueError.
NextMdns ==
    \/ \E d \in {-1, 0, 2} : MdnsStart(d)
    \/ MdnsStep
    \/ \E t \in BrowserThreads, ip \in Addrs :
          \E rid \in IdentifyOutcomes(ip) : Advertisement(t, ip, rid)
    \/ \E t \in BrowserThreads : AddCommit(t)
    \/ \E t \in BrowserThreads : AddFail(t)

\* The thread that called start_mdns_discovery keeps running: a step of
\* the call that can be taken is taken. Nothing is assumed of the network:
\* advertisements may or may not arrive.
SpecMdns == Init /\ [][NextMdns]_vars /\ WF_vars(MdnsStep)

\* ---------------------------------------------------------------- C21

\* C21: every call of start_mdns_discovery returns, and when it has
\* returned the listener is not open; a call that did not take the except
\* branch returns when the duration has gone by. This holds with no
\* advertisement and with advertisements arriving, and when an error
\* occurs before or after the listener was opened.
C21_DiscoveryAlwaysStops ==
    (mdns.pc # "idle") ~>
        (/\ mdns.pc = "idle"
         /\ mdns.zeroconf # "open"
         /\ ~mdns.error => mdns.elapsed = mdns.duration)

\* A call has returned through the except branch after the listener was
\* opened and browsers were created, advertisements were recorded while
\* it ran, and the listener is closed.
C21_Witness ==
    /\ mdns.pc = "idle" /\ mdns.runs > 0 /\ mdns.error
    /\ mdns.browsers > 0 /\ mdns.zeroconf = "closed"
    /\ registry # << >>

====
